---------------------------- MODULE Spec2Model ----------------------------
(***************************************************************************)
(* Canoja-Backend licence scrapers (src/scrapers/*.py): the eight          *)
(* per-jurisdiction extractors, their value normalizers and their batch    *)
(* drivers, modelled as state machines.                                    *)
(*                                                                         *)
(* A Python str is a sequence of one-character strings.  A Python value    *)
(* read from a raw record is a record [kind, s]:                           *)
(*   kind "none"  None (also a key that is missing from the row)           *)
(*   kind "nan"   float('nan') / pandas NaN                                *)
(*   kind "str"   a str, s its characters                                  *)
(*   kind "num"   an int or a float, s the characters of str(value)        *)
(*   kind "obj"   a value no normalizer can handle (a pandas Series for a  *)
(*                duplicated column label, a null "attributes" member):    *)
(*                touching it raises                                       *)
(***************************************************************************)
EXTENDS Integers, Sequences, FiniteSets, TLC

---------------------------------------------------------------------------
(* Python values                                                           *)

None == [kind |-> "none", s |-> <<>>]
NaN == [kind |-> "nan", s |-> <<>>]
Str(cs) == [kind |-> "str", s |-> cs]
Num(cs) == [kind |-> "num", s |-> cs]
Obj == [kind |-> "obj", s |-> <<>>]

\* row.get(key): the value of the column, None when the row has no such key
Get(row, key) == IF key \in DOMAIN row THEN row[key] ELSE None

\* pd.isna(value) for a scalar
IsNa(v) == v.kind \in {"none", "nan"}

\* bool(value): None, '' and 0 are falsy; NaN is a non-zero float, so truthy
Truthy(v) ==
  CASE v.kind = "none" -> FALSE
    [] v.kind = "nan" -> TRUE
    [] v.kind = "str" -> v.s # <<>>
    [] v.kind = "num" -> v.s \notin {<<"0">>, <<"0", ".", "0">>}
    [] v.kind = "date" -> TRUE

\* str(value)
PyStr(v) ==
  CASE v.kind = "none" -> <<"N", "o", "n", "e">>
    [] v.kind = "nan" -> <<"n", "a", "n">>
    [] OTHER -> v.s

\* `a or b`
PyOr(a, b) == IF Truthy(a) THEN a ELSE b

---------------------------------------------------------------------------
(* str methods and the re module, on sequences of characters               *)

UpperCase == <<"A", "B", "C", "D", "E", "F", "G", "H", "I", "J", "K", "L", "M",
               "N", "O", "P", "Q", "R", "S", "T", "U", "V", "W", "X", "Y", "Z">>
LowerCase == <<"a", "b", "c", "d", "e", "f", "g", "h", "i", "j", "k", "l", "m",
               "n", "o", "p", "q", "r", "s", "t", "u", "v", "w", "x", "y", "z">>
Digits == {"0", "1", "2", "3", "4", "5", "6", "7", "8", "9"}
Whitespace == {" ", "\t", "\n"}

IsUpper(c) == \E i \in DOMAIN UpperCase : UpperCase[i] = c
IsLower(c) == \E i \in DOMAIN LowerCase : LowerCase[i] = c
IsLetter(c) == IsUpper(c) \/ IsLower(c)
LowerChar(c) ==
  IF IsUpper(c) THEN LowerCase[CHOOSE i \in DOMAIN UpperCase : UpperCase[i] = c] ELSE c
UpperChar(c) ==
  IF IsLower(c) THEN UpperCase[CHOOSE i \in DOMAIN LowerCase : LowerCase[i] = c] ELSE c

\* s.lower(), s.upper()
Lower(s) == [i \in DOMAIN s |-> LowerChar(s[i])]
Upper(s) == [i \in DOMAIN s |-> UpperChar(s[i])]

\* s.strip()
Strip(s) ==
  LET keep == {i \in DOMAIN s : s[i] \notin Whitespace}
  IN IF keep = {} THEN <<>>
     ELSE LET lo == CHOOSE i \in keep : \A j \in keep : i <= j
              hi == CHOOSE i \in keep : \A j \in keep : j <= i
          IN SubSeq(s, lo, hi)

\* s[a:b] with 0-based bounds, clipped as Python clips a slice
Slice(s, a, b) == SubSeq(s, a + 1, IF b > Len(s) THEN Len(s) ELSE b)

\* sub in s
Contains(sub, s) ==
  \E i \in 0..(Len(s) - Len(sub)) : SubSeq(s, i + 1, i + Len(sub)) = sub

\* any(word in s for word in words)
AnyIn(words, s) == \E k \in DOMAIN words : Contains(words[k], s)

\* re.sub(r'\D', '', s)
RECURSIVE DigitsOnly(_)
DigitsOnly(s) ==
  IF s = <<>> THEN <<>>
  ELSE (IF Head(s) \in Digits THEN <<Head(s)>> ELSE <<>>) \o DigitsOnly(Tail(s))

\* sep.join(parts) for a separator of ", "
RECURSIVE JoinComma(_)
JoinComma(parts) ==
  IF parts = <<>> THEN <<>>
  ELSE IF Len(parts) = 1 THEN parts[1]
  ELSE parts[1] \o <<",", " ">> \o JoinComma(Tail(parts))


\* sep.join(parts) for a separator of one space
RECURSIVE JoinSpace(_)
JoinSpace(parts) ==
  IF parts = <<>> THEN <<>>
  ELSE IF Len(parts) = 1 THEN parts[1]
  ELSE parts[1] \o <<" ">> \o JoinSpace(Tail(parts))

\* s.split(','): the parts between the commas, at least one part
RECURSIVE SplitComma(_)
SplitComma(s) ==
  IF \A i \in DOMAIN s : s[i] # ","
    THEN <<s>>
    ELSE LET c == CHOOSE i \in DOMAIN s : s[i] = "," /\ \A j \in 1..(i - 1) : s[j] # ","
         IN <<SubSeq(s, 1, c - 1)>> \o SplitComma(SubSeq(s, c + 1, Len(s)))

\* s.split(): the maximal runs of non-whitespace characters
RECURSIVE SplitWhitespace(_)
SplitWhitespace(s) ==
  LET t == Strip(s)
  IN IF t = <<>> THEN <<>>
     ELSE IF \A i \in DOMAIN t : t[i] \notin Whitespace THEN <<t>>
     ELSE LET w == CHOOSE i \in DOMAIN t :
                     t[i] \in Whitespace /\ \A j \in 1..(i - 1) : t[j] \notin Whitespace
          IN <<SubSeq(t, 1, w - 1)>> \o SplitWhitespace(SubSeq(t, w + 1, Len(t)))

\* s.startswith(prefix)
StartsWith(s, prefix) == Len(s) >= Len(prefix) /\ SubSeq(s, 1, Len(prefix)) = prefix

AllDigits(s) == \A i \in DOMAIN s : s[i] \in Digits

\* int(s) for a non-empty string of decimal digits
DigitValue(c) == CHOOSE n \in 0..9 : <<"0", "1", "2", "3", "4", "5", "6", "7", "8", "9">>[n + 1] = c
RECURSIVE ToInt(_)
ToInt(s) == IF s = <<>> THEN 0 ELSE 10 * ToInt(SubSeq(s, 1, Len(s) - 1)) + DigitValue(s[Len(s)])

\* the decimal digits of n, zero-padded to `width` characters (format n:0{width}d)
RECURSIVE Pad(_, _)
Pad(n, width) ==
  IF width = 0 THEN <<>>
  ELSE Pad(n \div 10, width - 1) \o <<(<<"0", "1", "2", "3", "4", "5", "6", "7", "8", "9">>)[(n % 10) + 1]>>


---------------------------------------------------------------------------
(* Dates.  A timestamp is [ok, y, m, d], always at midnight: the raw       *)
(* records carry dates without a time of day.  pd.to_datetime is modelled  *)
(* on the string formats the sources use, "YYYY-MM-DD" (also followed by a *)
(* midnight time of day, the str() of a native date) and "M/D/YYYY" (month *)
(* first; dateutil takes the first number as the day when it cannot be a   *)
(* month), and on native date values; every other string is                *)
(* unparseable.  Numeric date cells are outside the model.                 *)

NaT == [ok |-> FALSE, y |-> 0, m |-> 0, d |-> 0]
Timestamp(y, m, d) == [ok |-> TRUE, y |-> y, m |-> m, d |-> d]

IsLeap(y) == (y % 4 = 0 /\ y % 100 # 0) \/ y % 400 = 0
DaysInMonth(y, m) ==
  IF m = 2 THEN (IF IsLeap(y) THEN 29 ELSE 28)
  ELSE IF m \in {4, 6, 9, 11} THEN 30 ELSE 31
ValidDate(y, m, d) == y >= 1 /\ m \in 1..12 /\ d >= 1 /\ d <= DaysInMonth(y, m)

\* date.toordinal(): the days from 0001-01-01, which is day 1
RECURSIVE DaysBeforeMonth(_, _)
DaysBeforeMonth(y, m) == IF m = 1 THEN 0 ELSE DaysBeforeMonth(y, m - 1) + DaysInMonth(y, m - 1)
ToOrdinal(ts) ==
  LET py == ts.y - 1
  IN py * 365 + (py \div 4) - (py \div 100) + (py \div 400) + DaysBeforeMonth(ts.y, ts.m) + ts.d

\* "YYYY-MM-DD"
ParseIsoDate(s) ==
  IF Len(s) = 10 /\ s[5] = "-" /\ s[8] = "-"
     /\ AllDigits(SubSeq(s, 1, 4)) /\ AllDigits(SubSeq(s, 6, 7)) /\ AllDigits(SubSeq(s, 9, 10))
    THEN LET y == ToInt(SubSeq(s, 1, 4))
             m == ToInt(SubSeq(s, 6, 7))
             d == ToInt(SubSeq(s, 9, 10))
         IN IF ValidDate(y, m, d) THEN Timestamp(y, m, d) ELSE NaT
    ELSE NaT

\* "M/D/YYYY"
ParseSlashDate(s) ==
  LET slashes == {i \in DOMAIN s : s[i] = "/"}
  IN IF Cardinality(slashes) # 2 THEN NaT
     ELSE LET i1 == CHOOSE i \in slashes : \A j \in slashes : i <= j
              i2 == CHOOSE i \in slashes : \A j \in slashes : j <= i
              a == SubSeq(s, 1, i1 - 1)
              b == SubSeq(s, i1 + 1, i2 - 1)
              c == SubSeq(s, i2 + 1, Len(s))
          IN IF Len(a) \in 1..2 /\ Len(b) \in 1..2 /\ Len(c) = 4
                /\ AllDigits(a) /\ AllDigits(b) /\ AllDigits(c)
               THEN IF ValidDate(ToInt(c), ToInt(a), ToInt(b))
                      THEN Timestamp(ToInt(c), ToInt(a), ToInt(b))
                    ELSE IF ValidDate(ToInt(c), ToInt(b), ToInt(a))
                      THEN Timestamp(ToInt(c), ToInt(b), ToInt(a))
                    ELSE NaT
               ELSE NaT

\* the strings pd.to_datetime turns into NaT without an error: '' and nat_strings
IsNatString(s) ==
  s \in {<<>>, <<"N", "a", "T">>, <<"n", "a", "t">>, <<"N", "A", "T">>,
         <<"n", "a", "n">>, <<"N", "a", "N">>, <<"N", "A", "N">>}

\* pd.to_datetime(value, errors='coerce') of a str or a native date value
to_datetime(v) ==
  CASE v.kind = "str" ->
         IF ParseIsoDate(v.s).ok THEN ParseIsoDate(v.s)
         ELSE IF Len(v.s) = 19 /\ v.s[11] \in {" ", "T"}
                 /\ SubSeq(v.s, 12, 19) = <<"0", "0", ":", "0", "0", ":", "0", "0">>
           THEN ParseIsoDate(SubSeq(v.s, 1, 10))
         ELSE ParseSlashDate(v.s)
    [] v.kind = "date" -> ParseIsoDate(SubSeq(v.s, 1, 10))

\* whether pd.to_datetime(value), without errors='coerce', raises
to_datetime_raises(v) == v.kind = "str" /\ ~IsNatString(v.s) /\ ~to_datetime(v).ok

\* a native date value (an Excel date cell), s the characters of str(value)
Date(y, m, d) ==
  [kind |-> "date",
   s |-> Pad(y, 4) \o <<"-">> \o Pad(m, 2) \o <<"-">> \o Pad(d, 2)
         \o <<" ", "0", "0", ":", "0", "0", ":", "0", "0">>]

\* Timestamp.isoformat() of a timestamp at midnight; NaT.isoformat() is 'NaT'
isoformat(ts) ==
  IF ~ts.ok THEN <<"N", "a", "T">> ELSE
  Pad(ts.y, 4) \o <<"-">> \o Pad(ts.m, 2) \o <<"-">> \o Pad(ts.d, 2)
    \o <<"T", "0", "0", ":", "0", "0", ":", "0", "0">>

---------------------------------------------------------------------------
(* Alberta: src/scrapers/alberta.py, CannabisLicenseScraper                *)

clean_string_alberta(value) ==
  IF IsNa(value) \/ value = Str(<<>>) THEN None ELSE Str(Strip(PyStr(value)))

\* a parse_date that hands the text of the cell on as it is
date_text_unparsed(date_value) ==
  IF IsNa(date_value) THEN None ELSE Str(PyStr(date_value))

parse_date_alberta(date_value) ==
  IF IsNa(date_value) THEN None
  ELSE IF to_datetime_raises(date_value) THEN None
  ELSE Str(isoformat(to_datetime(date_value)))

\* re.search(r'[A-Z]\d[A-Z]\s?\d[A-Z]\d', s, re.IGNORECASE): the length of a
\* match that starts at position i, 0 when there is none
PostalMatchAt(s, i) ==
  IF i + 5 <= Len(s) /\ IsLetter(s[i]) /\ s[i + 1] \in Digits /\ IsLetter(s[i + 2])
    THEN IF i + 6 <= Len(s) /\ s[i + 3] \in Whitespace /\ s[i + 4] \in Digits
            /\ IsLetter(s[i + 5]) /\ s[i + 6] \in Digits
           THEN 7
         ELSE IF s[i + 3] \in Digits /\ IsLetter(s[i + 4]) /\ s[i + 5] \in Digits
           THEN 6
         ELSE 0
    ELSE 0

extract_postal_code_alberta(address, site_postal) ==
  IF Truthy(site_postal) /\ Strip(PyStr(site_postal)) # <<>>
    THEN Str(Strip(PyStr(site_postal)))
  ELSE IF Truthy(address) /\ \E i \in DOMAIN PyStr(address) : PostalMatchAt(PyStr(address), i) > 0
    THEN LET s == PyStr(address)
             i == CHOOSE k \in DOMAIN s :
                    PostalMatchAt(s, k) > 0 /\ \A j \in 1..(k - 1) : PostalMatchAt(s, j) = 0
         IN Str(Upper(SubSeq(s, i, i + PostalMatchAt(s, i) - 1)))
  ELSE None

\* a chain that looks for the retail keywords first
retail_before_cultivation(establishment_name) ==
  IF ~Truthy(establishment_name) THEN Str(<<"o", "t", "h", "e", "r">>)
  ELSE LET name == Lower(establishment_name.s)
       IN IF AnyIn(<<<<"d", "i", "s", "p", "e", "n", "s", "a", "r", "y">>, <<"r", "e", "t", "a", "i", "l">>, <<"s", "t", "o", "r", "e">>>>, name) THEN Str(<<"r", "e", "t", "a", "i", "l">>)
          ELSE IF AnyIn(<<<<"c", "u", "l", "t", "i", "v", "a", "t", "i", "o", "n">>, <<"g", "r", "o", "w">>, <<"f", "a", "r", "m">>>>, name) THEN Str(<<"c", "u", "l", "t", "i", "v", "a", "t", "i", "o", "n">>)
          ELSE IF AnyIn(<<<<"p", "r", "o", "c", "e", "s", "s", "i", "n", "g">>, <<"e", "x", "t", "r", "a", "c", "t", "i", "o", "n">>, <<"m", "a", "n", "u", "f", "a", "c", "t", "u", "r", "i", "n", "g">>>>, name) THEN Str(<<"p", "r", "o", "c", "e", "s", "s", "i", "n", "g">>)
          ELSE IF AnyIn(<<<<"d", "i", "s", "t", "r", "i", "b", "u", "t", "i", "o", "n">>, <<"t", "r", "a", "n", "s", "p", "o", "r", "t">>, <<"d", "e", "l", "i", "v", "e", "r", "y">>>>, name) THEN Str(<<"d", "i", "s", "t", "r", "i", "b", "u", "t", "i", "o", "n">>)
          ELSE IF AnyIn(<<<<"t", "e", "s", "t", "i", "n", "g">>, <<"l", "a", "b">>, <<"l", "a", "b", "o", "r", "a", "t", "o", "r", "y">>>>, name) THEN Str(<<"t", "e", "s", "t", "i", "n", "g">>)
          ELSE Str(<<"o", "t", "h", "e", "r">>)

determine_license_type_alberta(establishment_name) ==
  IF ~Truthy(establishment_name) THEN Str(<<"o", "t", "h", "e", "r">>)
  ELSE LET name == Lower(establishment_name.s)
       IN IF AnyIn(<<<<"c", "u", "l", "t", "i", "v", "a", "t", "i", "o", "n">>, <<"g", "r", "o", "w">>, <<"f", "a", "r", "m">>>>, name) THEN Str(<<"c", "u", "l", "t", "i", "v", "a", "t", "i", "o", "n">>)
          ELSE IF AnyIn(<<<<"d", "i", "s", "p", "e", "n", "s", "a", "r", "y">>, <<"r", "e", "t", "a", "i", "l">>, <<"s", "t", "o", "r", "e">>>>, name) THEN Str(<<"r", "e", "t", "a", "i", "l">>)
          ELSE IF AnyIn(<<<<"p", "r", "o", "c", "e", "s", "s", "i", "n", "g">>, <<"e", "x", "t", "r", "a", "c", "t", "i", "o", "n">>, <<"m", "a", "n", "u", "f", "a", "c", "t", "u", "r", "i", "n", "g">>>>, name)
            THEN Str(<<"p", "r", "o", "c", "e", "s", "s", "i", "n", "g">>)
          ELSE IF AnyIn(<<<<"d", "i", "s", "t", "r", "i", "b", "u", "t", "i", "o", "n">>, <<"t", "r", "a", "n", "s", "p", "o", "r", "t">>, <<"d", "e", "l", "i", "v", "e", "r", "y">>>>, name)
            THEN Str(<<"d", "i", "s", "t", "r", "i", "b", "u", "t", "i", "o", "n">>)
          ELSE IF AnyIn(<<<<"t", "e", "s", "t", "i", "n", "g">>, <<"l", "a", "b">>, <<"l", "a", "b", "o", "r", "a", "t", "o", "r", "y">>>>, name) THEN Str(<<"t", "e", "s", "t", "i", "n", "g">>)
          ELSE Str(<<"o", "t", "h", "e", "r">>)

is_smoke_shop_alberta(establishment_name) ==
  IF ~Truthy(establishment_name) THEN FALSE
  ELSE AnyIn(<<<<"s", "m", "o", "k", "e">>, <<"t", "o", "b", "a", "c", "c", "o">>, <<"v", "a", "p", "e">>, <<"c", "i", "g", "a", "r">>>>, Lower(establishment_name.s))

parse_phone_number_alberta(phone) ==
  IF ~Truthy(phone) \/ IsNa(phone) THEN None
  ELSE LET digits_only == DigitsOnly(PyStr(phone))
       IN IF Len(digits_only) = 10
            THEN Str(<<"(">> \o Slice(digits_only, 0, 3) \o <<")", " ">>
                     \o Slice(digits_only, 3, 6) \o <<"-">> \o Slice(digits_only, 6, 10))
          ELSE IF Len(digits_only) = 11 /\ digits_only[1] = "1"
            THEN Str(<<"1", "-", "(">> \o Slice(digits_only, 1, 4) \o <<")", " ">>
                     \o Slice(digits_only, 4, 7) \o <<"-">> \o Slice(digits_only, 7, 11))
          ELSE IF digits_only # <<>> THEN Str(digits_only) ELSE None

create_address_string_alberta(row) ==
  LET street == clean_string_alberta(Get(row, "Site Address Line 1"))
      city == clean_string_alberta(Get(row, "Site City Name"))
      province == clean_string_alberta(Get(row, "Site"))
      postal == clean_string_alberta(Get(row, "Site Postal"))
      location_parts == SelectSeq(<<city, province, postal>>, Truthy)
      address_parts ==
        (IF Truthy(street) THEN <<street.s>> ELSE <<>>)
          \o (IF location_parts # <<>>
                THEN <<JoinComma([i \in DOMAIN location_parts |-> location_parts[i].s])>>
                ELSE <<>>)
  IN Str(JoinComma(address_parts))

transform_row_to_schema_alberta(row) ==
  LET business_name == clean_string_alberta(Get(row, "Establishment Name"))
      license_number == clean_string_alberta(Get(row, "Authorization Number"))
      city == clean_string_alberta(Get(row, "Site City Name"))
      business_address == create_address_string_alberta(row)
      phone == parse_phone_number_alberta(Get(row, "Telephone Number"))
      issue_date == parse_date_alberta(Get(row, "Initial Effective"))
      license_type == determine_license_type_alberta(business_name)
      smoke_shop == is_smoke_shop_alberta(business_name)
      manager_name == clean_string_alberta(Get(row, "Manager Name"))
  IN [business_name |-> business_name,
      license_number |-> license_number,
      stateName |-> Str(<<"A", "l", "b", "e", "r", "t", "a">>),
      city |-> city,
      business_address |-> business_address,
      contact_information |-> [phone |-> phone, email |-> None, website |-> None],
      owner |-> [name |-> manager_name,
                 email |-> None,
                 role |-> IF Truthy(manager_name) THEN Str(<<"M", "a", "n", "a", "g", "e", "r">>) ELSE None,
                 phone |-> phone,
                 govt_issued_id |-> None],
      operator_name |-> manager_name,
      issue_date |-> issue_date,
      expiration_date |-> None,
      license_type |-> license_type,
      license_status |-> Str(<<"A", "c", "t", "i", "v", "e">>),
      jurisdiction |-> Str(<<"A", "l", "b", "e", "r", "t", "a">>),
      regulatory_body |-> Str(<<"H", "e", "a", "l", "t", "h", " ", "C", "a", "n", "a", "d", "a">>),
      entity_type |-> <<license_type>>,
      filing_documents_url |-> None,
      license_conditions |-> <<>>,
      claimed |-> FALSE,
      claimedBy |-> None,
      claimedAt |-> None,
      canojaVerified |-> TRUE,
      adminVerificationRequired |-> FALSE,
      featured |-> FALSE,
      dba |-> business_name,
      state_license_document |-> None,
      utility_bill |-> None,
      gps_validation |-> FALSE,
      location |-> [type |-> Str(<<"P", "o", "i", "n", "t">>), coordinates |-> <<>>],
      smoke_shop |-> smoke_shop]

\* the cells transform_row_to_schema reads; a cell no normalizer can handle
\* (pd.isna(value) of a Series is a Series, and `if` on it raises) makes it raise
transform_raises_alberta(row) ==
  \E key \in {"Establishment Name", "Authorization Number", "Site City Name", "Site",
              "Site Address Line 1", "Site Postal", "Telephone Number",
              "Initial Effective", "Manager Name"} : Get(row, key).kind = "obj"

---------------------------------------------------------------------------
(* British Columbia: src/scrapers/bc.py, BCCannabisLicenseScraper          *)

clean_string_bc(value) ==
  IF IsNa(value) \/ value = Str(<<>>) \/ Strip(PyStr(value)) = <<>> THEN None
  ELSE Str(Strip(PyStr(value)))

\* a formatter that returns the digits as they are
digits_unformatted(phone) ==
  IF DigitsOnly(PyStr(phone)) = <<>> THEN None ELSE Str(DigitsOnly(PyStr(phone)))

parse_phone_number_bc(phone) ==
  IF ~Truthy(phone) \/ IsNa(phone) THEN None
  ELSE LET digits_only == DigitsOnly(PyStr(phone))
       IN IF Len(digits_only) = 10
            THEN Str(<<"(">> \o Slice(digits_only, 0, 3) \o <<")", " ">>
                     \o Slice(digits_only, 3, 6) \o <<"-">> \o Slice(digits_only, 6, 10))
          ELSE IF Len(digits_only) = 11 /\ digits_only[1] = "1"
            THEN Str(<<"1", "-", "(">> \o Slice(digits_only, 1, 4) \o <<")", " ">>
                     \o Slice(digits_only, 4, 7) \o <<"-">> \o Slice(digits_only, 7, 11))
          ELSE IF digits_only # <<>> THEN Str(digits_only) ELSE None

\* Alberta's chain in the place of British Columbia's: it ends in 'other'
classifier_defaulting_to_other(establishment_name) ==
  determine_license_type_alberta(establishment_name)

determine_license_type_bc(establishment_name) ==
  IF ~Truthy(establishment_name) THEN Str(<<"r", "e", "t", "a", "i", "l">>)
  ELSE LET name == Lower(establishment_name.s)
       IN IF AnyIn(<<<<"c", "u", "l", "t", "i", "v", "a", "t", "i", "o", "n">>, <<"g", "r", "o", "w">>, <<"f", "a", "r", "m">>, <<"g", "r", "o", "w", "e", "r">>>>, name)
            THEN Str(<<"c", "u", "l", "t", "i", "v", "a", "t", "i", "o", "n">>)
          ELSE IF AnyIn(<<<<"p", "r", "o", "c", "e", "s", "s", "i", "n", "g">>, <<"e", "x", "t", "r", "a", "c", "t", "i", "o", "n">>, <<"m", "a", "n", "u", "f", "a", "c", "t", "u", "r", "i", "n", "g">>, <<"p", "r", "o", "c", "e", "s", "s", "o", "r">>>>, name)
            THEN Str(<<"p", "r", "o", "c", "e", "s", "s", "i", "n", "g">>)
          ELSE IF AnyIn(<<<<"d", "i", "s", "t", "r", "i", "b", "u", "t", "i", "o", "n">>, <<"t", "r", "a", "n", "s", "p", "o", "r", "t">>, <<"d", "e", "l", "i", "v", "e", "r", "y">>, <<"d", "i", "s", "t", "r", "i", "b", "u", "t", "o", "r">>>>, name)
            THEN Str(<<"d", "i", "s", "t", "r", "i", "b", "u", "t", "i", "o", "n">>)
          ELSE IF AnyIn(<<<<"t", "e", "s", "t", "i", "n", "g">>, <<"l", "a", "b">>, <<"l", "a", "b", "o", "r", "a", "t", "o", "r", "y">>>>, name) THEN Str(<<"t", "e", "s", "t", "i", "n", "g">>)
          ELSE Str(<<"r", "e", "t", "a", "i", "l">>)

is_smoke_shop_bc(establishment_name) ==
  IF ~Truthy(establishment_name) THEN FALSE
  ELSE LET name == Lower(establishment_name.s)
       IN AnyIn(<<<<"s", "m", "o", "k", "e">>, <<"t", "o", "b", "a", "c", "c", "o">>, <<"c", "i", "g", "a", "r">>>>, name) /\ ~Contains(<<"c", "a", "n", "n", "a", "b", "i", "s">>, name)

create_full_address_bc(address, city, postal) ==
  LET location_parts ==
        (IF Truthy(city) THEN <<Strip(PyStr(city))>> ELSE <<>>)
          \o <<<<"B", "C">>>>
          \o (IF Truthy(postal) THEN <<Strip(PyStr(postal))>> ELSE <<>>)
      address_parts ==
        (IF Truthy(address) THEN <<Strip(PyStr(address))>> ELSE <<>>)
          \o (IF location_parts # <<>> THEN <<JoinComma(location_parts)>> ELSE <<>>)
  IN IF address_parts # <<>> THEN Str(JoinComma(address_parts)) ELSE Str(<<>>)

extract_postal_code_bc(postal_value) ==
  IF ~Truthy(postal_value) \/ IsNa(postal_value) THEN None
  ELSE LET postal == Upper(Strip(PyStr(postal_value)))
       IN IF Len(postal) = 6
            THEN Str(Slice(postal, 0, 3) \o <<" ">> \o Slice(postal, 3, 6))
          ELSE IF Len(postal) = 7 /\ postal[4] = " " THEN Str(postal)
          ELSE IF postal # <<>> THEN Str(postal) ELSE None

\* a transform that leaves the dba key out of its document
document_without_dba(row) ==
  LET document == transform_row_to_schema_alberta(row)
  IN [key \in DOMAIN document \ {"dba"} |-> document[key]]

\* a transform that marks the document claimed when the row has a status
document_claimed_from_row(row) ==
  [transform_row_to_schema_alberta(row) EXCEPT !.claimed = Get(row, "Status") # None]

transform_row_to_schema_bc(row) ==
  LET license_number == clean_string_bc(Get(row, "Licence"))
      establishment_name == clean_string_bc(Get(row, "Establishment Name"))
      phone == parse_phone_number_bc(Get(row, "Phone"))
      address == clean_string_bc(Get(row, "Address"))
      city == clean_string_bc(Get(row, "City"))
      postal == extract_postal_code_bc(Get(row, "Postal"))
      status == clean_string_bc(Get(row, "Status"))
      business_address == create_full_address_bc(address, city, postal)
      license_type == determine_license_type_bc(establishment_name)
      smoke_shop == is_smoke_shop_bc(establishment_name)
      license_status ==
        IF Truthy(status) /\ Lower(status.s) = <<"o", "p", "e", "n">> THEN Str(<<"A", "c", "t", "i", "v", "e">>)
        ELSE Str(<<"I", "n", "a", "c", "t", "i", "v", "e">>)
  IN [business_name |-> establishment_name,
      license_number |-> license_number,
      stateName |-> Str(<<"B", "r", "i", "t", "i", "s", "h", " ", "C", "o", "l", "u", "m", "b", "i", "a">>),
      city |-> city,
      business_address |-> business_address,
      contact_information |-> [phone |-> phone, email |-> None, website |-> None],
      owner |-> [name |-> None, email |-> None, role |-> None, phone |-> phone,
                 govt_issued_id |-> None],
      operator_name |-> None,
      issue_date |-> None,
      expiration_date |-> None,
      license_type |-> license_type,
      license_status |-> license_status,
      jurisdiction |-> Str(<<"B", "r", "i", "t", "i", "s", "h", " ", "C", "o", "l", "u", "m", "b", "i", "a">>),
      regulatory_body |-> Str(<<"L", "i", "q", "u", "o", "r", " ", "a", "n", "d", " ", "C", "a", "n", "n", "a", "b", "i", "s", " ", "R", "e", "g", "u", "l", "a", "t", "i", "o", "n", " ", "B", "r", "a", "n", "c", "h">>),
      entity_type |-> <<license_type>>,
      filing_documents_url |-> None,
      license_conditions |-> <<>>,
      claimed |-> FALSE,
      claimedBy |-> None,
      claimedAt |-> None,
      canojaVerified |-> TRUE,
      adminVerificationRequired |-> FALSE,
      featured |-> FALSE,
      dba |-> establishment_name,
      state_license_document |-> None,
      utility_bill |-> None,
      gps_validation |-> FALSE,
      location |-> [type |-> Str(<<"P", "o", "i", "n", "t">>), coordinates |-> <<>>],
      smoke_shop |-> smoke_shop]

transform_raises_bc(row) ==
  \E key \in {"Licence", "Establishment Name", "Phone", "Address", "City", "Postal",
              "Status"} : Get(row, key).kind = "obj"

---------------------------------------------------------------------------
(* Colorado: src/scrapers/colorado.py, CannabisLicenseScraper              *)

clean_string_colorado(value) ==
  IF IsNa(value) \/ value = Str(<<>>)
     \/ Lower(PyStr(value)) \in {<<"n", "o", "n", "e">>, <<"n", "u", "l", "l">>, <<"n", "/", "a">>}
    THEN None
  ELSE Str(Strip(PyStr(value)))

parse_date_colorado(date_value) ==
  IF IsNa(date_value) \/ ~Truthy(date_value) THEN None
  ELSE IF ~to_datetime(date_value).ok THEN None
  ELSE Str(isoformat(to_datetime(date_value)))

determine_license_type_colorado(facility_type, dba) ==
  LET combined_text ==
        Lower((IF Truthy(facility_type) THEN PyStr(facility_type) ELSE <<>>) \o <<" ">>
              \o (IF Truthy(dba) THEN PyStr(dba) ELSE <<>>))
  IN IF Contains(<<"c", "u", "l", "t", "i", "v", "a", "t", "i", "o", "n">>, combined_text) \/ Contains(<<"c", "u", "l", "t", "i", "v", "a", "t", "i", "o">>, combined_text)
       THEN Str(<<"c", "u", "l", "t", "i", "v", "a", "t", "i", "o", "n">>)
     ELSE IF AnyIn(<<<<"r", "e", "t", "a", "i", "l">>, <<"d", "i", "s", "p", "e", "n", "s", "a", "r", "y">>, <<"s", "t", "o", "r", "e">>>>, combined_text)
       THEN Str(<<"r", "e", "t", "a", "i", "l">>)
     ELSE IF AnyIn(<<<<"p", "r", "o", "c", "e", "s", "s", "i", "n", "g">>, <<"e", "x", "t", "r", "a", "c", "t", "i", "o", "n">>, <<"m", "a", "n", "u", "f", "a", "c", "t", "u", "r", "i", "n", "g">>, <<"i", "n", "f", "u", "s", "i", "o", "n">>>>,
                   combined_text)
       THEN Str(<<"p", "r", "o", "c", "e", "s", "s", "i", "n", "g">>)
     ELSE IF AnyIn(<<<<"d", "i", "s", "t", "r", "i", "b", "u", "t", "i", "o", "n">>, <<"t", "r", "a", "n", "s", "p", "o", "r", "t">>, <<"d", "e", "l", "i", "v", "e", "r", "y">>>>, combined_text)
       THEN Str(<<"d", "i", "s", "t", "r", "i", "b", "u", "t", "i", "o", "n">>)
     ELSE IF AnyIn(<<<<"t", "e", "s", "t", "i", "n", "g">>, <<"l", "a", "b">>, <<"l", "a", "b", "o", "r", "a", "t", "o", "r", "y">>>>, combined_text)
       THEN Str(<<"t", "e", "s", "t", "i", "n", "g">>)
     ELSE IF Contains(<<"m", "e", "d", "i", "c", "a", "l", " ", "m", "a", "r", "i", "j", "u", "a", "n", "a">>, combined_text) THEN Str(<<"m", "e", "d", "i", "c", "a", "l">>)
     ELSE IF Contains(<<"o", "p", "t", "i", "o", "n", "a", "l", " ", "p", "r", "e", "m", "i", "s", "e", "s">>, combined_text) THEN Str(<<"o", "p", "t", "i", "o", "n", "a", "l", "_", "p", "r", "e", "m", "i", "s", "e", "s">>)
     ELSE Str(<<"o", "t", "h", "e", "r">>)

is_smoke_shop_colorado(business_name, dba) ==
  LET combined_text ==
        Lower((IF Truthy(business_name) THEN PyStr(business_name) ELSE <<>>) \o <<" ">>
              \o (IF Truthy(dba) THEN PyStr(dba) ELSE <<>>))
  IN AnyIn(<<<<"s", "m", "o", "k", "e">>, <<"t", "o", "b", "a", "c", "c", "o">>, <<"v", "a", "p", "e">>, <<"c", "i", "g", "a", "r">>, <<"h", "e", "a", "d", " ", "s", "h", "o", "p">>>>, combined_text)

\* the shortest digit string parse_phone_number returns unformatted
MinPhoneDigits == 7

\* a formatter without the minimum length
phone_without_minimum(phone) == parse_phone_number_alberta(phone)

parse_phone_number_colorado(phone) ==
  IF ~Truthy(phone) \/ IsNa(phone) THEN None
  ELSE LET digits_only == DigitsOnly(PyStr(phone))
       IN IF digits_only = <<>> THEN None
          ELSE IF Len(digits_only) = 10
            THEN Str(<<"(">> \o Slice(digits_only, 0, 3) \o <<")", " ">>
                     \o Slice(digits_only, 3, 6) \o <<"-">> \o Slice(digits_only, 6, 10))
          ELSE IF Len(digits_only) = 11 /\ digits_only[1] = "1"
            THEN Str(<<"1", "-", "(">> \o Slice(digits_only, 1, 4) \o <<")", " ">>
                     \o Slice(digits_only, 4, 7) \o <<"-">> \o Slice(digits_only, 7, 11))
          ELSE IF Len(digits_only) >= MinPhoneDigits THEN Str(digits_only)
          ELSE None

create_full_address_colorado(row) ==
  LET street == clean_string_colorado(Get(row, "Street"))
      city == clean_string_colorado(Get(row, "City"))
      zip_code == clean_string_colorado(Get(row, "ZIP Code"))
      location_parts ==
        (IF Truthy(city) THEN <<city.s>> ELSE <<>>)
          \o (IF Truthy(zip_code) THEN <<zip_code.s>> ELSE <<>>)
      address_parts ==
        (IF Truthy(street) THEN <<street.s>> ELSE <<>>)
          \o (IF location_parts # <<>> THEN <<JoinComma(location_parts)>> ELSE <<>>)
  IN IF address_parts # <<>> THEN Str(JoinComma(address_parts)) ELSE None

\* a state name that is read from a column of the row
state_from_column(row) == PyOr(clean_string_colorado(Get(row, "City")), Str(<<"C", "o", "l", "o", "r", "a", "d", "o">>))

extract_state_from_data(row) == Str(<<"C", "o", "l", "o", "r", "a", "d", "o">>)

\* a licence updated at most this many days ago is taken to be active
ActiveWindowDays == 90

\* `now` is pd.Timestamp.now(), as the ordinal of its day.  update_date is at
\* midnight, so (current_date - update_date).days is the difference of the days.
\* pd.to_datetime raising falls through to the default; for NaT the difference is
\* NaT, its .days is nan and `nan <= 90` is False.
get_license_status_colorado(date_updated, now) ==
  IF Truthy(date_updated) /\ ~to_datetime_raises(date_updated)
    THEN IF to_datetime(date_updated).ok
              /\ now - ToOrdinal(to_datetime(date_updated)) <= ActiveWindowDays
           THEN Str(<<"A", "c", "t", "i", "v", "e">>)
           ELSE Str(<<"U", "n", "k", "n", "o", "w", "n">>)
    ELSE Str(<<"A", "c", "t", "i", "v", "e">>)

transform_row_to_schema_colorado(row, now) ==
  LET license_number == clean_string_colorado(Get(row, "License Number"))
      facility_name == clean_string_colorado(Get(row, "Facility Name"))
      dba == clean_string_colorado(Get(row, "DBA"))
      facility_type == clean_string_colorado(Get(row, "Facility Type"))
      city == clean_string_colorado(Get(row, "City"))
      date_updated == clean_string_colorado(Get(row, "Date Updated"))
      business_name == PyOr(facility_name, dba)
      business_address == create_full_address_colorado(row)
      state_name == extract_state_from_data(row)
      license_type == determine_license_type_colorado(facility_type, dba)
      license_status == get_license_status_colorado(date_updated, now)
      smoke_shop == is_smoke_shop_colorado(business_name, dba)
      issue_date == parse_date_colorado(date_updated)
  IN [googlePlaceId |-> None,
      business_name |-> business_name,
      license_number |-> license_number,
      stateName |-> state_name,
      city |-> city,
      business_address |-> business_address,
      contact_information |-> [phone |-> None, email |-> None, website |-> None],
      owner |-> [name |-> None, email |-> None, role |-> None, phone |-> None,
                 govt_issued_id |-> None],
      operator_name |-> None,
      issue_date |-> issue_date,
      expiration_date |-> None,
      license_type |-> license_type,
      license_status |-> license_status,
      jurisdiction |-> state_name,
      regulatory_body |-> Str(<<"C", "o", "l", "o", "r", "a", "d", "o", " ", "D", "e", "p", "a", "r", "t", "m", "e", "n", "t", " ", "o", "f", " ", "R", "e", "v", "e", "n", "u", "e">>),
      entity_type |-> <<license_type>>,
      filing_documents_url |-> None,
      license_conditions |-> <<>>,
      claimed |-> FALSE,
      claimedBy |-> None,
      claimedAt |-> None,
      canojaVerified |-> TRUE,
      adminVerificationRequired |-> FALSE,
      featured |-> FALSE,
      dba |-> dba,
      state_license_document |-> None,
      utility_bill |-> None,
      gps_validation |-> FALSE,
      location |-> [type |-> Str(<<"P", "o", "i", "n", "t">>), coordinates |-> <<>>],
      smoke_shop |-> smoke_shop]

transform_raises_colorado(row) ==
  \E key \in {"License Number", "Facility Name", "DBA", "Facility Type", "City",
              "Date Updated", "Street", "ZIP Code"} : Get(row, key).kind = "obj"

---------------------------------------------------------------------------
(* Federal (Health Canada): src/scrapers/federal.py,                       *)
(* HealthCanadaLicenseScraper.  A raw record is the sequence of the cells  *)
(* of one table row; a cell is the str of its text.                        *)

\* cells[i].get_text(strip=True) if len(cells) > i else "", i counted from 0
cell_text(cells, i) == IF Len(cells) > i THEN Strip(cells[i + 1].s) ELSE <<>>

parse_license_types(license_cell_text) ==
  IF license_cell_text = <<>> THEN <<>>
  ELSE LET text == Lower(license_cell_text)
           license_types ==
             (IF Contains(<<"m", "i", "c", "r", "o", "-", "p", "r", "o", "c", "e", "s", "s", "i", "n", "g">>, text) THEN <<Str(<<"m", "i", "c", "r", "o", "-", "p", "r", "o", "c", "e", "s", "s", "i", "n", "g">>)>>
              ELSE IF Contains(<<"p", "r", "o", "c", "e", "s", "s", "i", "n", "g">>, text) THEN <<Str(<<"p", "r", "o", "c", "e", "s", "s", "i", "n", "g">>)>>
              ELSE <<>>)
             \o (IF Contains(<<"m", "i", "c", "r", "o", "-", "c", "u", "l", "t", "i", "v", "a", "t", "i", "o", "n">>, text) THEN <<Str(<<"m", "i", "c", "r", "o", "-", "c", "u", "l", "t", "i", "v", "a", "t", "i", "o", "n">>)>>
                 ELSE IF Contains(<<"c", "u", "l", "t", "i", "v", "a", "t", "i", "o", "n">>, text) THEN <<Str(<<"c", "u", "l", "t", "i", "v", "a", "t", "i", "o", "n">>)>>
                 ELSE <<>>)
             \o (IF Contains(<<"s", "a", "l", "e">>, text) THEN <<Str(<<"r", "e", "t", "a", "i", "l">>)>> ELSE <<>>)
       IN IF license_types # <<>> THEN license_types ELSE <<Str(<<"o", "t", "h", "e", "r">>)>>

parse_authorized_products(products_text) ==
  IF products_text = <<>> THEN <<>>
  ELSE LET text == Lower(products_text)
       IN (IF Contains(<<"p", "l", "a", "n", "t", "s">>, text) \/ Contains(<<"s", "e", "e", "d", "s">>, text)
             THEN <<Str(<<"p", "l", "a", "n", "t", "s", "_", "s", "e", "e", "d", "s">>)>> ELSE <<>>)
          \o (IF Contains(<<"d", "r", "i", "e", "d">>, text) \/ Contains(<<"f", "r", "e", "s", "h">>, text)
                THEN <<Str(<<"d", "r", "i", "e", "d", "_", "f", "r", "e", "s", "h">>)>> ELSE <<>>)
          \o (IF Contains(<<"e", "x", "t", "r", "a", "c", "t", "s">>, text) THEN <<Str(<<"e", "x", "t", "r", "a", "c", "t", "s">>)>> ELSE <<>>)
          \o (IF Contains(<<"e", "d", "i", "b", "l", "e">>, text) THEN <<Str(<<"e", "d", "i", "b", "l", "e", "s">>)>> ELSE <<>>)
          \o (IF Contains(<<"t", "o", "p", "i", "c", "a", "l">>, text) THEN <<Str(<<"t", "o", "p", "i", "c", "a", "l", "s">>)>> ELSE <<>>)

clean_phone_number_federal(phone) ==
  IF ~Truthy(phone) \/ Lower(PyStr(phone)) \in {<<"n", "/", "a">>, <<"n", "o", "n", "e">>} THEN None
  ELSE LET digits_only == DigitsOnly(PyStr(phone))
       IN IF Len(digits_only) = 10
            THEN Str(<<"(">> \o Slice(digits_only, 0, 3) \o <<")", " ">>
                     \o Slice(digits_only, 3, 6) \o <<"-">> \o Slice(digits_only, 6, 10))
          ELSE IF Len(digits_only) = 11 /\ digits_only[1] = "1"
            THEN Str(<<"1", "-", "(">> \o Slice(digits_only, 1, 4) \o <<")", " ">>
                     \o Slice(digits_only, 4, 7) \o <<"-">> \o Slice(digits_only, 7, 11))
          ELSE IF digits_only # <<>> THEN Str(digits_only) ELSE None

\* re.match(r'\d{4}-\d{2}-\d{2}', date_str) accepts a prefix, and then
\* datetime.strptime(date_str, '%Y-%m-%d') raises unless the whole string is a date
parse_date_federal(date_str) ==
  IF date_str = <<>> \/ Lower(date_str) \in {<<"n", "/", "a">>, <<"n", "o", "n", "e">>} THEN None
  ELSE IF ParseIsoDate(date_str).ok THEN Str(isoformat(ParseIsoDate(date_str)))
  ELSE None

determine_license_status_federal(license_text) ==
  IF license_text = <<>> THEN Str(<<"U", "n", "k", "n", "o", "w", "n">>)
  ELSE IF Contains(<<"r", "e", "v", "o", "k", "e", "d">>, Lower(license_text)) THEN Str(<<"R", "e", "v", "o", "k", "e", "d">>)
  ELSE Str(<<"A", "c", "t", "i", "v", "e">>)

\* the body of the try block of scrape_table_data, for a row of at least 4 cells
document_federal(cells) ==
  LET license_holder == cell_text(cells, 0)
      province == cell_text(cells, 1)
      licenses == cell_text(cells, 2)
      authorized_products == cell_text(cells, 3)
      registered_patients == cell_text(cells, 4)
      client_care_phone == cell_text(cells, 5)
      initial_license_date == cell_text(cells, 6)
      license_types == parse_license_types(licenses)
      products == parse_authorized_products(authorized_products)
      phone == clean_phone_number_federal(Str(client_care_phone))
      issue_date == parse_date_federal(initial_license_date)
      license_status == determine_license_status_federal(licenses)
  IN [business_name |-> Str(license_holder),
      license_number |-> None,
      stateName |-> Str(<<"F", "e", "d", "e", "r", "a", "l">>),
      city |-> None,
      business_address |-> None,
      contact_information |-> [phone |-> phone, email |-> None, website |-> None],
      owner |-> [name |-> None, email |-> None, role |-> None, phone |-> phone,
                 govt_issued_id |-> None],
      operator_name |-> Str(license_holder),
      issue_date |-> issue_date,
      expiration_date |-> None,
      license_type |-> IF license_types # <<>> THEN license_types[1] ELSE Str(<<"o", "t", "h", "e", "r">>),
      license_status |-> license_status,
      jurisdiction |-> Str(province),
      regulatory_body |-> Str(<<"H", "e", "a", "l", "t", "h", " ", "C", "a", "n", "a", "d", "a">>),
      entity_type |-> license_types,
      filing_documents_url |-> None,
      license_conditions |-> <<>>,
      claimed |-> FALSE,
      claimedBy |-> None,
      claimedAt |-> None,
      canojaVerified |-> TRUE,
      adminVerificationRequired |-> FALSE,
      featured |-> FALSE,
      dba |-> Str(license_holder),
      state_license_document |-> None,
      utility_bill |-> None,
      gps_validation |-> FALSE,
      location |-> [type |-> Str(<<"P", "o", "i", "n", "t">>), coordinates |-> <<>>],
      smoke_shop |-> FALSE,
      authorized_products |-> products,
      registered_patients_authorized |-> Str(registered_patients),
      source |-> Str(<<"H", "e", "a", "l", "t", "h", " ", "C", "a", "n", "a", "d", "a", " ", "O", "f", "f", "i", "c", "i", "a", "l", " ", "R", "e", "g", "i", "s", "t", "r", "y">>)]

\* the try block reads the first seven cells; one whose text cannot be read raises
raises_federal(cells) == \E i \in 1..Len(cells) : i <= 7 /\ cells[i].kind = "obj"

\* the fewest cells of a row that is not skipped
MinCells == 4

---------------------------------------------------------------------------
(* Jamaica: src/scrapers/jamaica_cla.py, JamaicaCLALicenseScraper.  A raw  *)
(* record is the sequence of the td cells of one table row.                *)

parse_date_jamaica(date_str) ==
  IF ~Truthy(date_str) \/ IsNa(date_str) THEN None
  ELSE IF ~to_datetime(date_str).ok THEN None
  ELSE Str(isoformat(to_datetime(date_str)))

clean_string_jamaica(value) ==
  IF ~Truthy(value) \/ IsNa(value) THEN None ELSE Str(Strip(PyStr(value)))

determine_license_type_jamaica(license_type_str) ==
  IF ~Truthy(license_type_str) THEN Str(<<"o", "t", "h", "e", "r">>)
  ELSE LET license_type == Lower(license_type_str.s)
       IN IF Contains(<<"r", "e", "t", "a", "i", "l">>, license_type) /\ Contains(<<"t", "h", "e", "r", "a", "p", "e", "u", "t", "i", "c">>, license_type)
            THEN Str(<<"r", "e", "t", "a", "i", "l">>)
          ELSE IF Contains(<<"r", "e", "t", "a", "i", "l">>, license_type) /\ Contains(<<"h", "e", "r", "b", " ", "h", "o", "u", "s", "e">>, license_type)
            THEN Str(<<"r", "e", "t", "a", "i", "l">>)
          ELSE IF Contains(<<"p", "r", "o", "c", "e", "s", "s", "i", "n", "g">>, license_type) THEN Str(<<"p", "r", "o", "c", "e", "s", "s", "i", "n", "g">>)
          ELSE IF Contains(<<"c", "u", "l", "t", "i", "v", "a", "t", "o", "r">>, license_type) \/ Contains(<<"c", "u", "l", "t", "i", "v", "a", "t", "i", "o", "n">>, license_type)
            THEN Str(<<"c", "u", "l", "t", "i", "v", "a", "t", "i", "o", "n">>)
          ELSE IF Contains(<<"t", "r", "a", "n", "s", "p", "o", "r", "t">>, license_type) THEN Str(<<"d", "i", "s", "t", "r", "i", "b", "u", "t", "i", "o", "n">>)
          ELSE Str(<<"r", "e", "t", "a", "i", "l">>)

parishes ==
  <<<<"K", "i", "n", "g", "s", "t", "o", "n">>, <<"S", "t", ".", " ", "A", "n", "d", "r", "e", "w">>, <<"S", "a", "i", "n", "t", " ", "A", "n", "d", "r", "e", "w">>, <<"S", "t", " ", "A", "n", "d", "r", "e", "w">>,
    <<"S", "t", ".", " ", "C", "a", "t", "h", "e", "r", "i", "n", "e">>, <<"S", "a", "i", "n", "t", " ", "C", "a", "t", "h", "e", "r", "i", "n", "e">>, <<"S", "t", " ", "C", "a", "t", "h", "e", "r", "i", "n", "e">>,
    <<"C", "l", "a", "r", "e", "n", "d", "o", "n">>, <<"M", "a", "n", "c", "h", "e", "s", "t", "e", "r">>, <<"W", "e", "s", "t", "m", "o", "r", "e", "l", "a", "n", "d">>, <<"S", "t", ".", " ", "J", "a", "m", "e", "s">>,
    <<"S", "a", "i", "n", "t", " ", "J", "a", "m", "e", "s">>, <<"S", "t", " ", "J", "a", "m", "e", "s">>, <<"H", "a", "n", "o", "v", "e", "r">>, <<"T", "r", "e", "l", "a", "w", "n", "y">>,
    <<"S", "t", ".", " ", "A", "n", "n">>, <<"S", "a", "i", "n", "t", " ", "A", "n", "n">>, <<"S", "t", " ", "A", "n", "n">>, <<"S", "t", ".", " ", "M", "a", "r", "y">>, <<"S", "a", "i", "n", "t", " ", "M", "a", "r", "y">>, <<"S", "t", " ", "M", "a", "r", "y">>,
    <<"P", "o", "r", "t", "l", "a", "n", "d">>, <<"S", "t", ".", " ", "T", "h", "o", "m", "a", "s">>, <<"S", "a", "i", "n", "t", " ", "T", "h", "o", "m", "a", "s">>, <<"S", "t", " ", "T", "h", "o", "m", "a", "s">>>>

HasParish(text) == \E k \in DOMAIN parishes : Contains(Lower(parishes[k]), Lower(text))

extract_city_from_address(address) ==
  IF ~Truthy(address) THEN None
  ELSE IF HasParish(address.s)
    THEN Str(parishes[CHOOSE k \in DOMAIN parishes :
                        /\ Contains(Lower(parishes[k]), Lower(address.s))
                        /\ \A j \in 1..(k - 1) : ~Contains(Lower(parishes[j]), Lower(address.s))])
  ELSE IF Contains(<<"p", ".", "o", ".">>, Lower(address.s))
          /\ \E p \in DOMAIN SplitComma(address.s) : HasParish(Strip(SplitComma(address.s)[p]))
    THEN LET parts == SplitComma(address.s)
         IN Str(Strip(parts[CHOOSE p \in DOMAIN parts :
                              /\ HasParish(Strip(parts[p]))
                              /\ \A q \in 1..(p - 1) : ~HasParish(Strip(parts[q]))]))
  ELSE None

\* the body of the try block of scrape_table_data, for a row of at least 4 cells
document_jamaica(cells) ==
  LET licensee == clean_string_jamaica(cells[1])
      license_type == clean_string_jamaica(cells[2])
      business_address == clean_string_jamaica(cells[3])
      expiry_date == clean_string_jamaica(cells[4])
      city == extract_city_from_address(business_address)
      mapped_license_type == determine_license_type_jamaica(license_type)
      parsed_expiry == parse_date_jamaica(expiry_date)
  IN [business_name |-> licensee,
      license_number |-> None,
      stateName |-> Str(<<"J", "a", "m", "a", "i", "c", "a">>),
      city |-> city,
      business_address |-> business_address,
      contact_information |-> [phone |-> None, email |-> None, website |-> None],
      owner |-> [name |-> licensee, email |-> None, role |-> Str(<<"O", "w", "n", "e", "r">>), phone |-> None,
                 govt_issued_id |-> None],
      operator_name |-> licensee,
      issue_date |-> None,
      expiration_date |-> parsed_expiry,
      license_type |-> mapped_license_type,
      license_status |-> Str(<<"A", "c", "t", "i", "v", "e">>),
      jurisdiction |-> Str(<<"J", "a", "m", "a", "i", "c", "a">>),
      regulatory_body |-> Str(<<"C", "a", "n", "n", "a", "b", "i", "s", " ", "L", "i", "c", "e", "n", "s", "i", "n", "g", " ", "A", "u", "t", "h", "o", "r", "i", "t", "y", " ", "(", "C", "L", "A", ")">>),
      entity_type |-> <<mapped_license_type>>,
      filing_documents_url |-> None,
      license_conditions |-> <<>>,
      claimed |-> FALSE,
      claimedBy |-> None,
      claimedAt |-> None,
      canojaVerified |-> TRUE,
      adminVerificationRequired |-> FALSE,
      featured |-> FALSE,
      dba |-> licensee,
      state_license_document |-> None,
      utility_bill |-> None,
      gps_validation |-> FALSE,
      location |-> [type |-> Str(<<"P", "o", "i", "n", "t">>), coordinates |-> <<>>],
      smoke_shop |-> FALSE,
      original_license_type |-> license_type]

\* the try block reads the first four cells; one whose text cannot be read raises
raises_jamaica(cells) == \E i \in 1..Len(cells) : i <= 4 /\ cells[i].kind = "obj"

---------------------------------------------------------------------------
(* Michigan: src/scrapers/michigan.py, MichiganCannabisCSVProcessor        *)

clean_string_michigan(value) ==
  IF IsNa(value) \/ value = Str(<<>>)
     \/ Lower(PyStr(value)) \in {<<"n", "o", "n", "e">>, <<"n", "u", "l", "l">>, <<"n", "/", "a">>, <<"n", "a", "n">>}
    THEN None
  ELSE Str(Strip(PyStr(value)))

\* returns a datetime object, not an ISO string: a native date value
parse_date_michigan(date_value) ==
  IF IsNa(date_value) \/ ~Truthy(date_value) THEN None
  ELSE IF ~to_datetime(date_value).ok THEN None
  ELSE LET parsed_date == to_datetime(date_value)
       IN Date(parsed_date.y, parsed_date.m, parsed_date.d)

determine_license_type_michigan(record_type) ==
  IF ~Truthy(record_type) THEN Str(<<"o", "t", "h", "e", "r">>)
  ELSE LET record_lower == Lower(record_type.s)
       IN IF Contains(<<"r", "e", "t", "a", "i", "l", "e", "r">>, record_lower) \/ Contains(<<"r", "e", "t", "a", "i", "l">>, record_lower)
            THEN Str(<<"r", "e", "t", "a", "i", "l">>)
          ELSE IF Contains(<<"p", "r", "o", "c", "e", "s", "s", "o", "r">>, record_lower) \/ Contains(<<"p", "r", "o", "c", "e", "s", "s", "i", "n", "g">>, record_lower)
            THEN Str(<<"p", "r", "o", "c", "e", "s", "s", "i", "n", "g">>)
          ELSE IF Contains(<<"g", "r", "o", "w", "e", "r">>, record_lower) \/ Contains(<<"c", "u", "l", "t", "i", "v", "a", "t", "i", "o", "n">>, record_lower)
            THEN Str(<<"c", "u", "l", "t", "i", "v", "a", "t", "i", "o", "n">>)
          ELSE IF Contains(<<"t", "r", "a", "n", "s", "p", "o", "r", "t", "e", "r">>, record_lower) \/ Contains(<<"t", "r", "a", "n", "s", "p", "o", "r", "t">>, record_lower)
            THEN Str(<<"d", "i", "s", "t", "r", "i", "b", "u", "t", "i", "o", "n">>)
          ELSE IF Contains(<<"t", "e", "s", "t", "i", "n", "g">>, record_lower) \/ Contains(<<"l", "a", "b">>, record_lower)
            THEN Str(<<"t", "e", "s", "t", "i", "n", "g">>)
          ELSE IF Contains(<<"e", "n", "t", "i", "t", "y">>, record_lower) THEN Str(<<"e", "n", "t", "i", "t", "y">>)
          ELSE IF Contains(<<"s", "e", "c", "u", "r", "e", " ", "t", "r", "a", "n", "s", "p", "o", "r", "t">>, record_lower) THEN Str(<<"t", "r", "a", "n", "s", "p", "o", "r", "t">>)
          ELSE Str(<<"o", "t", "h", "e", "r">>)

parse_license_status_michigan(status) ==
  IF ~Truthy(status) THEN Str(<<"U", "n", "k", "n", "o", "w", "n">>)
  ELSE LET status_lower == Lower(status.s)
       IN IF Contains(<<"a", "c", "t", "i", "v", "e">>, status_lower)
            THEN IF Contains(<<"p", "r", "e", "q", "u", "a", "l", "i", "f", "i", "e", "d">>, status_lower) THEN Str(<<"P", "r", "e", "q", "u", "a", "l", "i", "f", "i", "e", "d">>)
                 ELSE Str(<<"A", "c", "t", "i", "v", "e">>)
          ELSE IF Contains(<<"i", "n", "a", "c", "t", "i", "v", "e">>, status_lower) THEN Str(<<"I", "n", "a", "c", "t", "i", "v", "e">>)
          ELSE IF Contains(<<"e", "x", "p", "i", "r", "e", "d">>, status_lower) THEN Str(<<"E", "x", "p", "i", "r", "e", "d">>)
          ELSE IF Contains(<<"p", "e", "n", "d", "i", "n", "g">>, status_lower) THEN Str(<<"P", "e", "n", "d", "i", "n", "g">>)
          ELSE IF Contains(<<"s", "u", "s", "p", "e", "n", "d", "e", "d">>, status_lower) THEN Str(<<"S", "u", "s", "p", "e", "n", "d", "e", "d">>)
          ELSE Str(<<"U", "n", "k", "n", "o", "w", "n">>)

\* whether r'\s+MI\s+\d{5}' matches s from position p on
MiZipAt(s, p) ==
  \E a \in 1..Len(s) : \E b \in 1..Len(s) :
    /\ p + a + 1 + b + 5 <= Len(s)
    /\ \A k \in p..(p + a - 1) : s[k] \in Whitespace
    /\ s[p + a] = "M" /\ s[p + a + 1] = "I"
    /\ \A k \in (p + a + 2)..(p + a + 1 + b) : s[k] \in Whitespace
    /\ \A k \in 1..5 : s[p + a + 1 + b + k] \in Digits

\* re.search(r'^(.+?)\s+MI\s+\d{5}', s): the length of group 1, 0 when no match
CityMatch(s) ==
  LET lens == {i \in 1..Len(s) : MiZipAt(s, i + 1) /\ \A k \in 1..i : s[k] # "\n"}
  IN IF lens = {} THEN 0 ELSE CHOOSE i \in lens : \A j \in lens : i <= j

parse_address(address_str) ==
  IF ~Truthy(address_str) THEN [full_address |-> None, city |-> None]
  ELSE LET parts == SplitComma(address_str.s)
           city_state_zip == Strip(parts[Len(parts)])
           city_parts == SplitWhitespace(city_state_zip)
           city ==
             IF Len(parts) < 2 THEN None
             ELSE IF CityMatch(city_state_zip) > 0
               THEN Str(Strip(SubSeq(city_state_zip, 1, CityMatch(city_state_zip))))
             ELSE IF Len(city_parts) > 2
               THEN Str(JoinSpace(SubSeq(city_parts, 1, Len(city_parts) - 2)))
             ELSE IF Len(city_parts) = 2 THEN Str(city_parts[1])
             ELSE None
       IN [full_address |-> address_str, city |-> city]

is_smoke_shop_michigan(business_name) ==
  IF ~Truthy(business_name) THEN FALSE
  ELSE AnyIn(<<<<"s", "m", "o", "k", "e">>, <<"t", "o", "b", "a", "c", "c", "o">>, <<"v", "a", "p", "e">>, <<"c", "i", "g", "a", "r">>, <<"h", "e", "a", "d", " ", "s", "h", "o", "p">>>>,
             Lower(business_name.s))

transform_row_to_schema_michigan(row) ==
  LET record_number ==
        clean_string_michigan(PyOr(Get(row, "Record Number"), Get(row, "RecordNumber")))
      record_type ==
        clean_string_michigan(PyOr(Get(row, "Record Type"), Get(row, "RecordType")))
      license_name ==
        clean_string_michigan(PyOr(Get(row, "License Name"), Get(row, "LicenseName")))
      address == clean_string_michigan(Get(row, "Address"))
      expiration_date ==
        clean_string_michigan(PyOr(Get(row, "Expiration Date"), Get(row, "ExpirationDate")))
      status == clean_string_michigan(Get(row, "Status"))
      notes == clean_string_michigan(Get(row, "Notes"))
      disciplinary_action ==
        clean_string_michigan(PyOr(Get(row, "Disciplinary Action"),
                                   Get(row, "DisciplinaryAction")))
      address_info == parse_address(address)
      license_type == determine_license_type_michigan(record_type)
      license_status == parse_license_status_michigan(status)
      smoke_shop == is_smoke_shop_michigan(license_name)
      expiry_date == parse_date_michigan(expiration_date)
  IN [googlePlaceId |-> None,
      business_name |-> license_name,
      license_number |-> record_number,
      stateName |-> Str(<<"M", "i", "c", "h", "i", "g", "a", "n">>),
      city |-> address_info.city,
      business_address |-> address_info.full_address,
      contact_information |-> [phone |-> None, email |-> None, website |-> None],
      owner |-> [name |-> None, email |-> None, role |-> None, phone |-> None,
                 govt_issued_id |-> None],
      operator_name |-> None,
      issue_date |-> None,
      expiration_date |-> expiry_date,
      license_type |-> license_type,
      license_status |-> license_status,
      jurisdiction |-> Str(<<"M", "i", "c", "h", "i", "g", "a", "n">>),
      regulatory_body |-> Str(<<"C", "a", "n", "n", "a", "b", "i", "s", " ", "R", "e", "g", "u", "l", "a", "t", "o", "r", "y", " ", "A", "g", "e", "n", "c", "y", " ", "(", "C", "R", "A", ")">>),
      entity_type |-> <<license_type>>,
      filing_documents_url |-> None,
      license_conditions |-> <<>>,
      claimed |-> FALSE,
      claimedBy |-> None,
      claimedAt |-> None,
      canojaVerified |-> FALSE,
      adminVerificationRequired |-> FALSE,
      featured |-> FALSE,
      dba |-> None,
      state_license_document |-> None,
      utility_bill |-> None,
      gps_validation |-> FALSE,
      location |-> [type |-> Str(<<"P", "o", "i", "n", "t">>), coordinates |-> <<>>],
      smoke_shop |-> smoke_shop]
     @@ ("_michigan_record_number" :> record_number)
     @@ ("_michigan_record_type" :> record_type)
     @@ ("_michigan_notes" :> notes)
     @@ ("_michigan_disciplinary_action" :> disciplinary_action)
     @@ ("_michigan_raw_status" :> status)

\* `a or b` evaluates b only when a is falsy; a cell no normalizer can handle
\* raises in `or` (the truth value of a Series is ambiguous) and in clean_string
alias_raises(row, first, second) ==
  IF Get(row, first).kind = "obj" THEN TRUE
  ELSE ~Truthy(Get(row, first)) /\ Get(row, second).kind = "obj"

transform_raises_michigan(row) ==
  \/ alias_raises(row, "Record Number", "RecordNumber")
  \/ alias_raises(row, "Record Type", "RecordType")
  \/ alias_raises(row, "License Name", "LicenseName")
  \/ alias_raises(row, "Expiration Date", "ExpirationDate")
  \/ alias_raises(row, "Disciplinary Action", "DisciplinaryAction")
  \/ \E key \in {"Address", "Status", "Notes"} : Get(row, key).kind = "obj"

---------------------------------------------------------------------------
(* Ontario: src/scrapers/ontario.py, OntarioCannabisLicenseScraper.  A raw *)
(* record is [attributes, null]: the attributes mapping of an ESRI         *)
(* feature, `null` when the feature's "attributes" member is JSON null.    *)

clean_string_ontario(value) ==
  IF value = None \/ value = Str(<<>>)
     \/ Lower(PyStr(value)) \in {<<"n", "o", "n", "e">>, <<"n", "u", "l", "l">>, <<"n", "/", "a">>, <<"n", "a", "n">>, <<".">>}
    THEN None
  ELSE Str(Strip(PyStr(value)))

parse_date_ontario(date_value) ==
  IF ~Truthy(date_value)
     \/ (date_value.kind = "str" /\ date_value.s \in {<<>>, <<"n", "u", "l", "l">>, <<"N", "o", "n", "e">>, <<".">>})
    THEN None
  ELSE IF ~to_datetime(date_value).ok THEN None
  ELSE Str(isoformat(to_datetime(date_value)))

determine_license_type_ontario(premises_name) ==
  IF ~Truthy(premises_name) THEN Str(<<"r", "e", "t", "a", "i", "l">>)
  ELSE LET name_lower == Lower(premises_name.s)
       IN IF AnyIn(<<<<"c", "u", "l", "t", "i", "v", "a", "t", "i", "o", "n">>, <<"c", "u", "l", "t", "i", "v", "a", "t", "o", "r">>, <<"g", "r", "o", "w">>, <<"f", "a", "r", "m">>>>, name_lower)
            THEN Str(<<"c", "u", "l", "t", "i", "v", "a", "t", "i", "o", "n">>)
          ELSE IF AnyIn(<<<<"p", "r", "o", "c", "e", "s", "s", "i", "n", "g">>, <<"p", "r", "o", "c", "e", "s", "s", "o", "r">>, <<"e", "x", "t", "r", "a", "c", "t", "i", "o", "n">>, <<"m", "a", "n", "u", "f", "a", "c", "t", "u", "r", "i", "n", "g">>>>,
                        name_lower)
            THEN Str(<<"p", "r", "o", "c", "e", "s", "s", "i", "n", "g">>)
          ELSE IF AnyIn(<<<<"d", "i", "s", "t", "r", "i", "b", "u", "t", "i", "o", "n">>, <<"d", "i", "s", "t", "r", "i", "b", "u", "t", "o", "r">>, <<"t", "r", "a", "n", "s", "p", "o", "r", "t">>, <<"d", "e", "l", "i", "v", "e", "r", "y">>>>,
                        name_lower)
            THEN Str(<<"d", "i", "s", "t", "r", "i", "b", "u", "t", "i", "o", "n">>)
          ELSE IF AnyIn(<<<<"t", "e", "s", "t", "i", "n", "g">>, <<"l", "a", "b">>, <<"l", "a", "b", "o", "r", "a", "t", "o", "r", "y">>>>, name_lower)
            THEN Str(<<"t", "e", "s", "t", "i", "n", "g">>)
          ELSE Str(<<"r", "e", "t", "a", "i", "l">>)

is_smoke_shop_ontario(business_name) ==
  IF ~Truthy(business_name) THEN FALSE
  ELSE AnyIn(<<<<"s", "m", "o", "k", "e">>, <<"t", "o", "b", "a", "c", "c", "o">>, <<"v", "a", "p", "e">>, <<"c", "i", "g", "a", "r">>, <<"h", "e", "a", "d", " ", "s", "h", "o", "p">>>>,
             Lower(business_name.s))

get_license_status_ontario(application_status) ==
  IF ~Truthy(application_status) THEN Str(<<"A", "c", "t", "i", "v", "e">>)
  ELSE LET status_lower == Lower(application_status.s)
       IN IF Contains(<<"a", "u", "t", "h", "o", "r", "i", "z", "e", "d", " ", "t", "o", " ", "o", "p", "e", "n">>, status_lower) THEN Str(<<"A", "c", "t", "i", "v", "e">>)
          ELSE IF Contains(<<"p", "e", "n", "d", "i", "n", "g">>, status_lower) THEN Str(<<"P", "e", "n", "d", "i", "n", "g">>)
          ELSE IF Contains(<<"d", "e", "n", "i", "e", "d">>, status_lower) \/ Contains(<<"r", "e", "j", "e", "c", "t", "e", "d">>, status_lower)
            THEN Str(<<"D", "e", "n", "i", "e", "d">>)
          ELSE IF Contains(<<"s", "u", "s", "p", "e", "n", "d", "e", "d">>, status_lower) THEN Str(<<"S", "u", "s", "p", "e", "n", "d", "e", "d">>)
          ELSE Str(<<"A", "c", "t", "i", "v", "e">>)

\* whether float(value) returns: a number, or a str that spells a decimal number
FloatOk(v) ==
  \/ v.kind = "num"
  \/ /\ v.kind = "str"
     /\ LET t == Strip(v.s)
            body == IF t # <<>> /\ t[1] \in {"-", "+"} THEN Tail(t) ELSE t
            dots == {i \in DOMAIN body : body[i] = "."}
        IN /\ Cardinality(dots) <= 1
           /\ \A i \in DOMAIN body : body[i] \in Digits \/ body[i] = "."
           /\ \E i \in DOMAIN body : body[i] \in Digits

\* float(value), as the number's characters
Float(v) == Num(Strip(v.s))

transform_record_to_schema(record) ==
  LET attributes == record.attributes
      premises_name == clean_string_ontario(Get(attributes, "PremisesName"))
      street_address == clean_string_ontario(Get(attributes, "StreetAddress"))
      city == clean_string_ontario(Get(attributes, "City"))
      province == clean_string_ontario(Get(attributes, "Province"))
      postal_code == clean_string_ontario(Get(attributes, "PostalCode"))
      application_status == clean_string_ontario(Get(attributes, "ApplicationStatus"))
      website == clean_string_ontario(Get(attributes, "Website"))
      public_notice_date == clean_string_ontario(Get(attributes, "PublicNoticeDate"))
      location_parts ==
        (IF Truthy(city) THEN <<city.s>> ELSE <<>>)
          \o (IF Truthy(province) THEN <<province.s>> ELSE <<>>)
          \o (IF Truthy(postal_code) THEN <<postal_code.s>> ELSE <<>>)
      address_parts ==
        (IF Truthy(street_address) THEN <<street_address.s>> ELSE <<>>)
          \o (IF location_parts # <<>> THEN <<JoinComma(location_parts)>> ELSE <<>>)
      business_address == IF address_parts # <<>> THEN Str(JoinComma(address_parts)) ELSE None
      latitude == Get(attributes, "Latitude")
      longitude == Get(attributes, "Longitude")
      coordinates ==
        IF Truthy(longitude) /\ Truthy(latitude) /\ FloatOk(longitude) /\ FloatOk(latitude)
          THEN <<Float(longitude), Float(latitude)>>
          ELSE <<>>
      license_type == determine_license_type_ontario(premises_name)
      license_status == get_license_status_ontario(application_status)
      smoke_shop == is_smoke_shop_ontario(premises_name)
      issue_date ==
        IF Truthy(public_notice_date) /\ public_notice_date # Str(<<".">>)
          THEN parse_date_ontario(public_notice_date)
          ELSE None
  IN [googlePlaceId |-> None,
      business_name |-> premises_name,
      license_number |-> None,
      stateName |-> Str(<<"O", "n", "t", "a", "r", "i", "o">>),
      city |-> city,
      business_address |-> business_address,
      contact_information |-> [phone |-> None, email |-> None, website |-> website],
      owner |-> [name |-> None, email |-> None, role |-> None, phone |-> None,
                 govt_issued_id |-> None],
      operator_name |-> None,
      issue_date |-> issue_date,
      expiration_date |-> None,
      license_type |-> license_type,
      license_status |-> license_status,
      jurisdiction |-> Str(<<"O", "n", "t", "a", "r", "i", "o">>),
      regulatory_body |-> Str(<<"A", "l", "c", "o", "h", "o", "l", " ", "a", "n", "d", " ", "G", "a", "m", "i", "n", "g", " ", "C", "o", "m", "m", "i", "s", "s", "i", "o", "n", " ", "o", "f", " ", "O", "n", "t", "a", "r", "i", "o", " ", "(", "A", "G", "C", "O", ")">>),
      entity_type |-> <<license_type>>,
      filing_documents_url |-> clean_string_ontario(Get(attributes, "URLLink")),
      license_conditions |-> <<>>,
      claimed |-> FALSE,
      claimedBy |-> None,
      claimedAt |-> None,
      canojaVerified |-> TRUE,
      adminVerificationRequired |-> FALSE,
      featured |-> FALSE,
      dba |-> None,
      state_license_document |-> None,
      utility_bill |-> None,
      gps_validation |-> coordinates # <<>>,
      location |-> [type |-> Str(<<"P", "o", "i", "n", "t">>), coordinates |-> coordinates],
      smoke_shop |-> smoke_shop,
      application_status |-> application_status,
      objectid |-> Get(attributes, "OBJECTID"),
      postal_code |-> postal_code]

\* attributes.get on None raises AttributeError
transform_raises_ontario(record) == record.null

---------------------------------------------------------------------------
(* Saskatchewan: src/scrapers/saskatchewan.py, SLGACannabisRetailerScraper *)

clean_string_sask(value) ==
  IF IsNa(value) \/ value = Str(<<>>) THEN None ELSE Str(Strip(PyStr(value)))

parse_date_sask(date_value) ==
  IF IsNa(date_value) THEN None
  ELSE IF to_datetime_raises(date_value) THEN None
  ELSE Str(isoformat(to_datetime(date_value)))

extract_phone_from_website_or_name(website, business_name) == None

determine_license_type_from_name(operating_name) ==
  IF ~Truthy(operating_name) THEN Str(<<"r", "e", "t", "a", "i", "l">>)
  ELSE LET name == Lower(operating_name.s)
       IN IF AnyIn(<<<<"d", "i", "s", "p", "e", "n", "s", "a", "r", "y">>, <<"c", "a", "n", "n", "a", "b", "i", "s">>, <<"w", "e", "e", "d">>, <<"s", "h", "o", "p">>, <<"s", "t", "o", "r", "e">>>>, name)
            THEN Str(<<"r", "e", "t", "a", "i", "l">>)
          ELSE IF Contains(<<"s", "m", "o", "k", "e">>, name) THEN Str(<<"r", "e", "t", "a", "i", "l">>)
          ELSE Str(<<"r", "e", "t", "a", "i", "l">>)

is_smoke_shop_sask(operating_name) ==
  IF ~Truthy(operating_name) THEN FALSE
  ELSE AnyIn(<<<<"s", "m", "o", "k", "e">>, <<"t", "o", "b", "a", "c", "c", "o">>, <<"v", "a", "p", "e">>, <<"c", "i", "g", "a", "r">>>>, Lower(operating_name.s))

create_full_address_sask(street_address, city) ==
  LET address_parts ==
        (IF Truthy(street_address) /\ Strip(street_address.s) # <<>>
           THEN <<Strip(street_address.s)>> ELSE <<>>)
          \o (IF Truthy(city) /\ Strip(city.s) # <<>> THEN <<Strip(city.s)>> ELSE <<>>)
  IN Str(JoinComma(IF address_parts # <<>>
                     THEN address_parts \o <<<<"S", "a", "s", "k", "a", "t", "c", "h", "e", "w", "a", "n">>, <<"C", "a", "n", "a", "d", "a">>>>
                     ELSE address_parts))

\* website.lower() raises AttributeError for a cell that is not a str
clean_website_url_raises(website) ==
  Truthy(website) /\ ~IsNa(website) /\ website.kind # "str"

clean_website_url(website) ==
  IF ~Truthy(website) \/ IsNa(website)
     \/ Lower(website.s) \in {<<"n", "/", "a">>, <<"n", "o", "n", "e">>, <<>>}
    THEN None
  ELSE LET stripped == Strip(website.s)
       IN IF stripped # <<>> /\ ~StartsWith(stripped, <<"h", "t", "t", "p", ":", "/", "/">>)
             /\ ~StartsWith(stripped, <<"h", "t", "t", "p", "s", ":", "/", "/">>)
            THEN Str(<<"h", "t", "t", "p", "s", ":", "/", "/">> \o stripped)
            ELSE Str(stripped)

transform_row_to_schema_sask(row) ==
  LET permit_number == clean_string_sask(Get(row, "Permit Number"))
      status == clean_string_sask(Get(row, "Status"))
      city == clean_string_sask(Get(row, "City"))
      operating_name == clean_string_sask(Get(row, "Operating Name"))
      street_address == clean_string_sask(Get(row, "Street Address"))
      website == clean_website_url(Get(row, "Website"))
      last_updated == parse_date_sask(Get(row, "Last Updated"))
      business_address == create_full_address_sask(street_address, city)
      license_type == determine_license_type_from_name(operating_name)
      smoke_shop == is_smoke_shop_sask(operating_name)
      phone == extract_phone_from_website_or_name(website, operating_name)
  IN [business_name |-> operating_name,
      license_number |-> permit_number,
      stateName |-> Str(<<"S", "a", "s", "k", "a", "t", "c", "h", "e", "w", "a", "n">>),
      city |-> city,
      business_address |-> business_address,
      contact_information |-> [phone |-> phone, email |-> None, website |-> website],
      owner |-> [name |-> None, email |-> None, role |-> None, phone |-> phone,
                 govt_issued_id |-> None],
      operator_name |-> operating_name,
      issue_date |-> None,
      expiration_date |-> None,
      license_type |-> license_type,
      license_status |-> status,
      jurisdiction |-> Str(<<"S", "a", "s", "k", "a", "t", "c", "h", "e", "w", "a", "n">>),
      regulatory_body |-> Str(<<"S", "a", "s", "k", "a", "t", "c", "h", "e", "w", "a", "n", " ", "L", "i", "q", "u", "o", "r", " ", "a", "n", "d", " ", "G", "a", "m", "i", "n", "g", " ", "A", "u", "t", "h", "o", "r", "i", "t", "y", " ", "(", "S", "L", "G", "A", ")">>),
      entity_type |-> <<license_type>>,
      filing_documents_url |-> None,
      license_conditions |-> <<>>,
      claimed |-> FALSE,
      claimedBy |-> None,
      claimedAt |-> None,
      canojaVerified |-> TRUE,
      adminVerificationRequired |-> FALSE,
      featured |-> FALSE,
      dba |-> operating_name,
      state_license_document |-> None,
      utility_bill |-> None,
      gps_validation |-> FALSE,
      location |-> [type |-> Str(<<"P", "o", "i", "n", "t">>), coordinates |-> <<>>],
      smoke_shop |-> smoke_shop,
      permit_number |-> permit_number,
      last_updated |-> last_updated,
      data_source |-> Str(<<"S", "L", "G", "A", " ", "C", "a", "n", "n", "a", "b", "i", "s", " ", "R", "e", "t", "a", "i", "l", "e", "r", "s", " ", "R", "e", "g", "i", "s", "t", "r", "y">>)]

transform_raises_sask(row) ==
  \/ \E key \in {"Permit Number", "Status", "City", "Operating Name", "Street Address",
                 "Website", "Last Updated"} : Get(row, key).kind = "obj"
  \/ clean_website_url_raises(Get(row, "Website"))

---------------------------------------------------------------------------
(* The batch drivers: scrape_all_data (Alberta, British Columbia,          *)
(* Colorado, Ontario, Saskatchewan), process_all_data (Michigan),          *)
(* scrape_table_data (Federal) and scrape_all_pages over                   *)
(* scrape_table_data (Jamaica, here on a site of one page; the walk over   *)
(* several pages is SpecPages below).                                      *)

Jurisdictions ==
  {"Alberta", "British Columbia", "Colorado", "Federal", "Jamaica", "Michigan", "Ontario",
   "Saskatchewan"}

\* the extractors that read an HTML table: a raw record is a row's cells
TableJurisdictions == {"Federal", "Jamaica"}

\* the drivers that count processed and failed records
CountingJurisdictions == {"Colorado", "Michigan", "Ontario"}

\* how obtaining the source can end: the loaders return False on any exception,
\* fetch_page_content / fetch_page return None, soup.find('table') returns None
LoadOutcomes(j) ==
  IF j \in TableJurisdictions THEN {"ok", "fetch_failed", "no_table"} ELSE {"ok", "load_failed"}

\* document = self.transform_row_to_schema(row) and its kin: whether the call raises
TransformRaises(j, rec) ==
  CASE j = "Alberta" -> transform_raises_alberta(rec)
    [] j = "British Columbia" -> transform_raises_bc(rec)
    [] j = "Colorado" -> transform_raises_colorado(rec)
    [] j = "Federal" -> raises_federal(rec)
    [] j = "Jamaica" -> raises_jamaica(rec)
    [] j = "Michigan" -> transform_raises_michigan(rec)
    [] j = "Ontario" -> transform_raises_ontario(rec)
    [] j = "Saskatchewan" -> transform_raises_sask(rec)

\* a transform that stamps its document with the clock
TransformStampedWithClock(j, rec, t) ==
  LET row == IF j \in TableJurisdictions \/ j = "Ontario" THEN [key \in {} |-> None] ELSE rec
  IN [transform_row_to_schema_alberta(row) EXCEPT !.claimedAt = Str(Pad(t, 6))]

\* the document the call returns, at clock reading t
Transform(j, rec, t) ==
  CASE j = "Alberta" -> transform_row_to_schema_alberta(rec)
    [] j = "British Columbia" -> transform_row_to_schema_bc(rec)
    [] j = "Colorado" -> transform_row_to_schema_colorado(rec, t)
    [] j = "Federal" -> document_federal(rec)
    [] j = "Jamaica" -> document_jamaica(rec)
    [] j = "Michigan" -> transform_row_to_schema_michigan(rec)
    [] j = "Ontario" -> transform_record_to_schema(rec)
    [] j = "Saskatchewan" -> transform_row_to_schema_sask(rec)

\* rows the table drivers pass over before the try block: too few cells
TooShort(j, rec) == j \in TableJurisdictions /\ Len(rec) < MinCells

\* the completeness gate of the driver: `if document['business_name'] and
\* document['license_number']`, `if document['business_name']`, or none at all
\* a driver that appends whatever the transform returns
NoGate(j, document) == TRUE

Gate(j, document) ==
  CASE j \in {"Colorado", "Michigan"} ->
         Truthy(document.business_name) /\ Truthy(document.license_number)
    [] j = "Ontario" -> Truthy(document.business_name)
    [] OTHER -> TRUE

---------------------------------------------------------------------------
(* Raw records the sources can hold, a few of each jurisdiction: a full    *)
(* row, a row with every field absent, rows without a business name or a   *)
(* licence number, a whitespace-only name, and a row that makes the        *)
(* transform raise.                                                        *)

\* a data-frame row (or attributes mapping) with no column at all
EmptyRow == [key \in {} |-> None]

RowsAlberta ==
  {("Establishment Name" :> Str(<<"G", "r", "e", "e", "n", " ", "L", "e", "a", "f", " ", "D", "i", "s", "p", "e", "n", "s", "a", "r", "y">>))
     @@ ("Authorization Number" :> Str(<<"A", "B", "-", "1", "0", "0", "1">>))
     @@ ("Site City Name" :> Str(<<"C", "a", "l", "g", "a", "r", "y">>))
     @@ ("Telephone Number" :> Str(<<"4", "0", "3", "5", "5", "5", "1", "2", "3", "4">>))
     @@ ("Initial Effective" :> Str(<<"7", "/", "1", "0", "/", "2", "0", "2", "2">>)),
   EmptyRow,
   ("Establishment Name" :> NaN) @@ ("Authorization Number" :> Str(<<"A", "B", "-", "1", "0", "0", "2">>)),
   ("Establishment Name" :> Str(<<" ", " ">>)) @@ ("Authorization Number" :> Str(<<"A", "B", "-", "1", "0", "0", "3">>))
     @@ ("Initial Effective" :> Str(<<>>)),
   ("Establishment Name" :> Str(<<"B", "o", "w", " ", "F", "a", "r", "m">>)) @@ ("Authorization Number" :> NaN)
     @@ ("Manager Name" :> Str(<<"A", ".", " ", "R", "o", "y">>)),
   ("Establishment Name" :> Str(<<"T", "w", "i", "n", " ", "S", "t", "o", "r", "e">>)) @@ ("Site" :> Obj)}

RowsBC ==
  {("Licence" :> Num(<<"4", "5", "0", "0", "1", "2">>)) @@ ("Establishment Name" :> Str(<<"C", "o", "a", "s", "t", " ", "C", "a", "n", "n", "a", "b", "i", "s">>))
     @@ ("Phone" :> Str(<<"6", "0", "4", "-", "5", "5", "5", "-", "0", "1", "9", "9">>)) @@ ("Address" :> Str(<<"1", "2", " ", "W", "a", "t", "e", "r", " ", "S", "t">>))
     @@ ("City" :> Str(<<"V", "a", "n", "c", "o", "u", "v", "e", "r">>)) @@ ("Postal" :> Str(<<"v", "6", "b", "1", "a", "1">>))
     @@ ("Status" :> Str(<<"O", "p", "e", "n">>)),
   EmptyRow,
   ("Licence" :> Num(<<"4", "5", "0", "0", "1", "3">>)) @@ ("Establishment Name" :> NaN),
   ("Licence" :> Num(<<"4", "5", "0", "0", "1", "4">>)) @@ ("Establishment Name" :> Str(<<" ">>)),
   ("Licence" :> NaN) @@ ("Establishment Name" :> Str(<<"S", "m", "o", "k", "e", " ", "&", " ", "C", "i", "g", "a", "r">>))
     @@ ("Status" :> Str(<<"C", "l", "o", "s", "e", "d">>)),
   ("Licence" :> Obj) @@ ("Establishment Name" :> Str(<<"T", "w", "i", "n", " ", "S", "t", "o", "r", "e">>))}

RowsColorado ==
  {("License Number" :> Str(<<"4", "0", "3", "-", "0", "0", "0", "0", "1">>)) @@ ("Facility Name" :> Str(<<"M", "i", "l", "e", " ", "H", "i", "g", "h", " ", "L", "L", "C">>))
     @@ ("DBA" :> Str(<<"M", "i", "l", "e", " ", "H", "i", "g", "h", " ", "D", "i", "s", "p", "e", "n", "s", "a", "r", "y">>))
     @@ ("Facility Type" :> Str(<<"R", "e", "t", "a", "i", "l", " ", "M", "a", "r", "i", "j", "u", "a", "n", "a", " ", "S", "t", "o", "r", "e">>))
     @@ ("Street" :> Str(<<"1", " ", "M", "a", "i", "n", " ", "S", "t">>)) @@ ("City" :> Str(<<"D", "e", "n", "v", "e", "r">>))
     @@ ("ZIP Code" :> Num(<<"8", "0", "2", "0", "2">>)) @@ ("Date Updated" :> Str(<<"2", "0", "2", "5", "-", "0", "1", "-", "1", "2">>)),
   EmptyRow,
   ("License Number" :> Str(<<"4", "0", "3", "-", "0", "0", "0", "0", "2">>)) @@ ("Facility Name" :> Str(<<"N", "/", "A">>))
     @@ ("DBA" :> NaN),
   ("License Number" :> Str(<<"4", "0", "3", "-", "0", "0", "0", "0", "3">>)) @@ ("Facility Name" :> Str(<<" ">>))
     @@ ("DBA" :> Str(<<"P", "e", "a", "k", " ", "G", "r", "o", "w">>)) @@ ("Date Updated" :> Str(<<"s", "o", "o", "n">>)),
   ("License Number" :> Str(<<"n", "o", "n", "e">>)) @@ ("Facility Name" :> Str(<<"P", "e", "a", "k", " ", "C", "u", "l", "t", "i", "v", "a", "t", "i", "o", "n">>))
     @@ ("Facility Type" :> Str(<<"R", "e", "t", "a", "i", "l", " ", "M", "a", "r", "i", "j", "u", "a", "n", "a", " ", "C", "u", "l", "t", "i", "v", "a", "t", "i", "o", "n", " ", "F", "a", "c", "i", "l", "i", "t", "y">>)),
   ("License Number" :> Str(<<"4", "0", "3", "-", "0", "0", "0", "0", "4">>)) @@ ("Facility Name" :> Obj)}

RowsFederal ==
  {<<Str(<<" ", "A", "u", "r", "o", "r", "a", " ", "L", "t", "d", " ">>), Str(<<"A", "l", "b", "e", "r", "t", "a">>), Str(<<"C", "u", "l", "t", "i", "v", "a", "t", "i", "o", "n", ",", " ", "P", "r", "o", "c", "e", "s", "s", "i", "n", "g", ",", " ", "S", "a", "l", "e">>),
     Str(<<"D", "r", "i", "e", "d", ",", " ", "E", "x", "t", "r", "a", "c", "t", "s">>), Str(<<"Y", "e", "s">>), Str(<<"1", "-", "8", "4", "4", "-", "5", "5", "5", "-", "0", "1", "0", "0">>), Str(<<"2", "0", "1", "9", "-", "0", "3", "-", "0", "8">>)>>,
   <<Str(<<>>), Str(<<>>), Str(<<>>), Str(<<>>)>>,
   <<Str(<<>>), Str(<<"O", "n", "t", "a", "r", "i", "o">>), Str(<<"M", "i", "c", "r", "o", "-", "c", "u", "l", "t", "i", "v", "a", "t", "i", "o", "n", " ", "(", "r", "e", "v", "o", "k", "e", "d", ")">>), Str(<<"P", "l", "a", "n", "t", "s">>),
     Str(<<"N", "o">>), Str(<<"N", "/", "A">>), Str(<<"N", "/", "A">>)>>,
   <<Str(<<"S", "h", "o", "r", "t", " ", "R", "o", "w", " ", "I", "n", "c">>), Str(<<"Q", "u", "e", "b", "e", "c">>), Str(<<"S", "a", "l", "e">>)>>,
   <<Str(<<"T", "w", "i", "n", " ", "L", "t", "d">>), Obj, Str(<<"S", "a", "l", "e">>), Str(<<"D", "r", "i", "e", "d">>)>>}

RowsJamaica ==
  {<<Str(<<"\n", " ", "I", "s", "l", "a", "n", "d", " ", "H", "e", "r", "b", "s", " ", "L", "t", "d", " ", "\n">>), Str(<<"R", "e", "t", "a", "i", "l", " ", "(", "H", "e", "r", "b", " ", "H", "o", "u", "s", "e", ")">>),
     Str(<<"4", " ", "H", "o", "p", "e", " ", "R", "d", ",", " ", "K", "i", "n", "g", "s", "t", "o", "n">>), Str(<<"2", "0", "2", "5", "-", "0", "1", "-", "1", "2">>)>>,
   <<Str(<<>>), Str(<<>>), Str(<<>>), Str(<<>>)>>,
   <<Str(<<" ", " ">>), Str(<<"C", "u", "l", "t", "i", "v", "a", "t", "o", "r", " ", "T", "i", "e", "r", " ", "1">>), Str(<<"P", ".", "O", ".", " ", "B", "o", "x", " ", "9", ",", " ", "S", "t", ".", " ", "A", "n", "n">>), Str(<<"n", "/", "a">>)>>,
   <<Str(<<"S", "h", "o", "r", "t", " ", "R", "o", "w", " ", "L", "t", "d">>), Str(<<"T", "r", "a", "n", "s", "p", "o", "r", "t">>), Str(<<"P", "o", "r", "t", "l", "a", "n", "d">>)>>,
   <<Obj, Str(<<"P", "r", "o", "c", "e", "s", "s", "i", "n", "g">>), Str(<<"H", "a", "n", "o", "v", "e", "r">>), Str(<<"2", "0", "2", "6", "-", "0", "2", "-", "3", "0">>)>>}

RowsMichigan ==
  {("Record Number" :> Str(<<"A", "U", "-", "R", "-", "0", "0", "0", "1", "0", "1">>))
     @@ ("Record Type" :> Str(<<"M", "a", "r", "i", "h", "u", "a", "n", "a", " ", "R", "e", "t", "a", "i", "l", "e", "r", " ", "-", " ", "L", "i", "c", "e", "n", "s", "e">>))
     @@ ("License Name" :> Str(<<"L", "a", "k", "e", " ", "E", "f", "f", "e", "c", "t", " ", "L", "L", "C">>))
     @@ ("Address" :> Str(<<"5", "5", " ", "O", "a", "k", " ", "S", "t", ",", " ", "A", "n", "n", " ", "A", "r", "b", "o", "r", " ", "M", "I", " ", "4", "8", "1", "0", "4">>))
     @@ ("Expiration Date" :> Str(<<"1", "2", "/", "3", "1", "/", "2", "0", "2", "5">>)) @@ ("Status" :> Str(<<"A", "c", "t", "i", "v", "e">>)),
   EmptyRow,
   ("RecordNumber" :> Str(<<"A", "U", "-", "G", "-", "0", "0", "0", "1", "0", "2">>)) @@ ("RecordType" :> Str(<<"C", "l", "a", "s", "s", " ", "C", " ", "G", "r", "o", "w", "e", "r">>))
     @@ ("LicenseName" :> Str(<<"n", "a", "n">>)) @@ ("Status" :> Str(<<"I", "n", "a", "c", "t", "i", "v", "e">>)),
   ("Record Number" :> NaN) @@ ("RecordNumber" :> Str(<<"A", "U", "-", "P", "-", "0", "0", "0", "1", "0", "3">>))
     @@ ("License Name" :> Str(<<"V", "a", "p", "e", " ", "H", "u", "t">>)) @@ ("Status" :> Str(<<"E", "x", "p", "i", "r", "e", "d">>)),
   ("Record Number" :> Str(<<"A", "U", "-", "T", "-", "0", "0", "0", "1", "0", "4">>)) @@ ("License Name" :> Str(<<" ">>))
     @@ ("Record Type" :> Str(<<"S", "e", "c", "u", "r", "e", " ", "T", "r", "a", "n", "s", "p", "o", "r", "t", "e", "r">>)),
   ("Record Number" :> Str(<<"A", "U", "-", "R", "-", "0", "0", "0", "1", "0", "5">>)) @@ ("License Name" :> Obj)}

RowsOntario ==
  {[attributes |->
      ("PremisesName" :> Str(<<"Q", "u", "e", "e", "n", " ", "S", "t", " ", "C", "a", "n", "n", "a", "b", "i", "s">>)) @@ ("StreetAddress" :> Str(<<"9", " ", "Q", "u", "e", "e", "n", " ", "S", "t">>))
        @@ ("City" :> Str(<<"T", "o", "r", "o", "n", "t", "o">>)) @@ ("Province" :> Str(<<"O", "N">>))
        @@ ("PostalCode" :> Str(<<"M", "5", "H", " ", "2", "N", "2">>))
        @@ ("ApplicationStatus" :> Str(<<"A", "u", "t", "h", "o", "r", "i", "z", "e", "d", " ", "t", "o", " ", "O", "p", "e", "n">>))
        @@ ("Latitude" :> Num(<<"4", "3", ".", "6", "5">>)) @@ ("Longitude" :> Num(<<"-", "7", "9", ".", "3", "8">>))
        @@ ("PublicNoticeDate" :> Str(<<"2", "0", "2", "1", "-", "0", "5", "-", "0", "4">>)) @@ ("OBJECTID" :> Num(<<"1", "7">>))
        @@ ("URLLink" :> Str(<<" ", "h", "t", "t", "p", "s", ":", "/", "/", "a", "g", "c", "o", ".", "e", "x", "a", "m", "p", "l", "e", "/", "1", "7">>)),
    null |-> FALSE],
   [attributes |-> EmptyRow, null |-> FALSE],
   [attributes |-> ("PremisesName" :> Str(<<".">>)) @@ ("ApplicationStatus" :> Str(<<"P", "e", "n", "d", "i", "n", "g">>)),
    null |-> FALSE],
   [attributes |-> ("PremisesName" :> None) @@ ("City" :> Str(<<"O", "t", "t", "a", "w", "a">>)), null |-> FALSE],
   [attributes |->
      ("PremisesName" :> Str(<<"Z", "e", "r", "o", " ", "M", "e", "r", "i", "d", "i", "a", "n", " ", "F", "a", "r", "m">>)) @@ ("Latitude" :> Num(<<"0">>))
        @@ ("Longitude" :> Num(<<"-", "7", "9", ".", "3", "8">>)),
    null |-> FALSE],
   [attributes |-> EmptyRow, null |-> TRUE]}

RowsSaskatchewan ==
  {("Permit Number" :> Str(<<"S", "K", "-", "0", "0", "0", "7">>)) @@ ("Status" :> Str(<<"A", "c", "t", "i", "v", "e">>))
     @@ ("City" :> Str(<<"R", "e", "g", "i", "n", "a">>)) @@ ("Operating Name" :> Str(<<"P", "r", "a", "i", "r", "i", "e", " ", "C", "a", "n", "n", "a", "b", "i", "s">>))
     @@ ("Street Address" :> Str(<<"3", " ", "E", "l", "m", " ", "A", "v", "e">>)) @@ ("Website" :> Str(<<"p", "r", "a", "i", "r", "i", "e", ".", "e", "x", "a", "m", "p", "l", "e">>))
     @@ ("Last Updated" :> Date(2025, 9, 9)),
   EmptyRow,
   ("Permit Number" :> Str(<<"S", "K", "-", "0", "0", "0", "8">>)) @@ ("Operating Name" :> NaN),
   ("Permit Number" :> Str(<<"S", "K", "-", "0", "0", "0", "9">>)) @@ ("Operating Name" :> Str(<<" ">>))
     @@ ("Status" :> Str(<<"C", "a", "n", "c", "e", "l", "l", "e", "d">>)),
   ("Permit Number" :> NaN) @@ ("Operating Name" :> Str(<<"S", "m", "o", "k", "e", " ", "S", "t", "o", "p">>))
     @@ ("Last Updated" :> Str(<<>>)),
   ("Permit Number" :> Str(<<"S", "K", "-", "0", "0", "1", "0">>)) @@ ("Operating Name" :> Str(<<"T", "w", "i", "n", " ", "S", "t", "o", "r", "e">>))
     @@ ("Website" :> Num(<<"4", "0", "4">>))}

RawRecords(j) ==
  CASE j = "Alberta" -> RowsAlberta
    [] j = "British Columbia" -> RowsBC
    [] j = "Colorado" -> RowsColorado
    [] j = "Federal" -> RowsFederal
    [] j = "Jamaica" -> RowsJamaica
    [] j = "Michigan" -> RowsMichigan
    [] j = "Ontario" -> RowsOntario
    [] j = "Saskatchewan" -> RowsSaskatchewan

\* the most records of a batch
MaxBatch == 2

\* every batch of at most MaxBatch raw records
Batches(j) == UNION {[1..n -> RawRecords(j)] : n \in 0..MaxBatch}

\* the clock: pd.Timestamp.now() as the ordinal of its day
Today == ToOrdinal(Timestamp(2025, 3, 1))
TickDays == 60
MaxTicks == 1

---------------------------------------------------------------------------
(* The state of one extractor run.                                         *)

VARIABLES
  jur,              \* the extractor that runs
  load,             \* what loading the source gives
  rows,             \* the raw records of the source, in source order
  now,              \* the clock, as the ordinal of the current day
  ticks,            \* how often the clock has advanced
  pc,               \* "start", "loop" or "done"
  index,            \* position of the driver's loop in rows
  documents,        \* the driver's output batch
  origins,          \* for each document, the position of its raw record
  stamps,           \* for each document, the clock when it was transformed
  log,              \* the events the driver has logged
  processed_count,  \* the counter of appended documents
  error_count,      \* the counter of failed records
  transform_calls,  \* how many times the transform has been invoked
  call,             \* the normalizer applied last, if any
  args,             \* its arguments
  ret,              \* its return value
  page_num,         \* scrape_all_pages: the page being scraped
  all_licenses,     \* scrape_all_pages: the accumulated documents
  fetched,          \* scrape_all_pages: the pages requested so far, with what came of each
  page_pc           \* scrape_all_pages: "idle", "fetch" or "done"

driverVars == <<jur, load, rows, now, ticks, pc, index, documents, origins, stamps,
                log, processed_count, error_count, transform_calls>>
pureVars == <<call, args, ret>>
pageVars == <<page_num, all_licenses, fetched, page_pc>>
vars == <<driverVars, pureVars, pageVars>>

NoCall == [fn |-> "none", of |-> "none"]

DriverIdle ==
  /\ jur = "Alberta" /\ load = "ok" /\ rows = <<>> /\ now = Today /\ ticks = 0
  /\ pc = "done" /\ index = 1 /\ documents = <<>> /\ origins = <<>> /\ stamps = <<>>
  /\ log = <<>> /\ processed_count = 0 /\ error_count = 0 /\ transform_calls = 0

PureIdle == call = NoCall /\ args = <<>> /\ ret = None

PagesIdle == page_num = 0 /\ all_licenses = <<>> /\ fetched = <<>> /\ page_pc = "idle"

\* the state in which a driver is entered
DriverInit ==
  /\ jur \in Jurisdictions
  /\ load \in LoadOutcomes(jur)
  /\ rows \in Batches(jur)
  /\ now = Today /\ ticks = 0
  /\ pc = "start" /\ index = 1
  /\ documents = <<>> /\ origins = <<>> /\ stamps = <<>> /\ log = <<>>
  /\ processed_count = 0 /\ error_count = 0 /\ transform_calls = 0

Init == DriverInit /\ PureIdle /\ PagesIdle

\* a driver that enters its loop although the source could not be loaded
LoadFailureIgnored ==
  /\ pc = "start" /\ load # "ok"
  /\ pc' = "loop"
  /\ UNCHANGED <<jur, load, rows, now, ticks, index, documents, origins, stamps, log,
                 processed_count, error_count, transform_calls>>
  /\ UNCHANGED <<pureVars, pageVars>>

\* the source cannot be loaded: the driver returns the empty batch
LoadFails ==
  /\ UNCHANGED <<pureVars, pageVars>>
  /\ pc = "start" /\ load # "ok"
  /\ pc' = "done"
  /\ UNCHANGED <<jur, load, rows, now, ticks, index, documents, origins, stamps, log,
                 processed_count, error_count, transform_calls>>

\* the source is loaded: the driver enters its loop with an empty batch
LoadSucceeds ==
  /\ UNCHANGED <<pureVars, pageVars>>
  /\ pc = "start" /\ load = "ok"
  /\ pc' = "loop"
  /\ UNCHANGED <<jur, load, rows, now, ticks, index, documents, origins, stamps, log,
                 processed_count, error_count, transform_calls>>

InLoop == pc = "loop" /\ index <= Len(rows)

\* a driver that reports a failed record as a skipped one
MisreportedEvent(k) == [kind |-> "skip", index |-> k]

\* "Skipping row k: Missing essential data"
SkipEvent(k) == [kind |-> "skip", index |-> k]

\* "Error processing row k: ..."
ErrorEvent(k) == [kind |-> "error", index |-> k]

\* the three ways the try block of the loop can end for record k
RaisesAt(k) == ~TooShort(jur, rows[k]) /\ TransformRaises(jur, rows[k])

PassesAt(k) ==
  /\ ~TooShort(jur, rows[k]) /\ ~TransformRaises(jur, rows[k])
  /\ Gate(jur, Transform(jur, rows[k], now))

FailsGateAt(k) ==
  /\ ~TooShort(jur, rows[k]) /\ ~TransformRaises(jur, rows[k])
  /\ ~Gate(jur, Transform(jur, rows[k], now))

\* a driver that never increments its counters
Uncounted(counter) == counter

Counted(counter) == IF jur \in CountingJurisdictions THEN counter + 1 ELSE counter

\* a table row with fewer than four cells is passed over before the try block
SkipShortRow ==
  /\ UNCHANGED <<pureVars, pageVars>>
  /\ InLoop /\ TooShort(jur, rows[index])
  /\ index' = index + 1
  /\ UNCHANGED <<jur, load, rows, now, ticks, pc, documents, origins, stamps, log,
                 processed_count, error_count, transform_calls>>

\* the transform raises: the except branch logs the record and continues
RecordError ==
  /\ UNCHANGED <<pureVars, pageVars>>
  /\ InLoop /\ RaisesAt(index)
  /\ log' = Append(log, ErrorEvent(index))
  /\ error_count' = Counted(error_count)
  /\ transform_calls' = transform_calls + 1
  /\ index' = index + 1
  /\ UNCHANGED <<jur, load, rows, now, ticks, pc, documents, origins, stamps,
                 processed_count>>

\* a driver that puts the new document at the head of the batch
PrependDocument ==
  /\ UNCHANGED <<pureVars, pageVars>>
  /\ InLoop /\ PassesAt(index)
  /\ documents' = <<Transform(jur, rows[index], now)>> \o documents
  /\ origins' = <<index>> \o origins
  /\ stamps' = <<now>> \o stamps
  /\ processed_count' = Counted(processed_count)
  /\ transform_calls' = transform_calls + 1
  /\ index' = index + 1
  /\ UNCHANGED <<jur, load, rows, now, ticks, pc, log, error_count>>

\* the transform returns a document that passes the driver's gate
AppendDocument ==
  /\ UNCHANGED <<pureVars, pageVars>>
  /\ InLoop /\ PassesAt(index)
  /\ documents' = Append(documents, Transform(jur, rows[index], now))
  /\ origins' = Append(origins, index)
  /\ stamps' = Append(stamps, now)
  /\ processed_count' = Counted(processed_count)
  /\ transform_calls' = transform_calls + 1
  /\ index' = index + 1
  /\ UNCHANGED <<jur, load, rows, now, ticks, pc, log, error_count>>

\* the transform returns a document that the driver's gate rejects
SkipIncomplete ==
  /\ UNCHANGED <<pureVars, pageVars>>
  /\ InLoop /\ FailsGateAt(index)
  /\ log' = Append(log, SkipEvent(index))
  /\ transform_calls' = transform_calls + 1
  /\ index' = index + 1
  /\ UNCHANGED <<jur, load, rows, now, ticks, pc, documents, origins, stamps,
                 processed_count, error_count>>

\* the loop is exhausted: the driver returns documents
Finish ==
  /\ UNCHANGED <<pureVars, pageVars>>
  /\ pc = "loop" /\ index > Len(rows)
  /\ pc' = "done"
  /\ UNCHANGED <<jur, load, rows, now, ticks, index, documents, origins, stamps, log,
                 processed_count, error_count, transform_calls>>

\* time passes while the driver has records left to transform
Tick ==
  /\ UNCHANGED <<pureVars, pageVars>>
  /\ InLoop /\ ticks < MaxTicks
  /\ now' = now + TickDays
  /\ ticks' = ticks + 1
  /\ UNCHANGED <<jur, load, rows, pc, index, documents, origins, stamps, log,
                 processed_count, error_count, transform_calls>>

Next ==
  \/ LoadFails \/ LoadSucceeds \/ SkipShortRow \/ RecordError \/ AppendDocument
  \/ SkipIncomplete \/ Finish \/ Tick

Spec == Init /\ [][Next]_vars

---------------------------------------------------------------------------
(* Partial-failure isolation.                                              *)

\* the records of the batch whose transform raises
Raising == {k \in 1..Len(rows) : RaisesAt(k)}

\* the records of the batch whose document passes the driver's gate
Passing == {k \in 1..Len(rows) : PassesAt(k)}

ErrorsLogged == {i \in 1..Len(log) : log[i].kind = "error"}

Returned == pc = "done" /\ load = "ok"

\* what the batch and the log hold once the driver has returned, k being the
\* one record whose transform raises
IsolatedFailure(k) ==
  /\ Len(documents) = Len(origins)
  /\ Len(origins) = Cardinality(Passing)
  /\ {origins[i] : i \in 1..Len(origins)} = Passing
  /\ \A i \in 1..Len(origins) : i > 1 => origins[i - 1] < origins[i]
  /\ \A i \in 1..Len(documents) :
       documents[i] = Transform(jur, rows[origins[i]], stamps[i])
  /\ k \notin {origins[i] : i \in 1..Len(origins)}
  /\ Cardinality(ErrorsLogged) = 1
  /\ \A i \in ErrorsLogged : log[i].index = k
  /\ jur \in CountingJurisdictions => error_count = 1

\* the statements the driver still has to run before it returns
StepsLeft ==
  CASE pc = "start" -> Len(rows) + 3
    [] pc = "loop" -> Len(rows) + 2 - index
    [] pc = "done" -> 0

\* the driver always has a statement to run until it has returned
NeverStuck ==
  /\ pc \in {"start", "loop", "done"}
  /\ InLoop =>
       \/ TooShort(jur, rows[index]) \/ RaisesAt(index)
       \/ PassesAt(index) \/ FailsGateAt(index)

\* C1: in every driver, when exactly one record k of the batch makes the
\* transform raise, the driver returns (it always has a statement to run, and
\* each statement it runs leaves fewer to run), and once it has returned the
\* batch holds, in source order, exactly the documents of the records other
\* than k that pass the driver's gate, none for k, and the log holds exactly
\* one error event, which is for k.
C1_PartialFailureIsolation ==
  /\ [](Cardinality(Raising) = 1 => NeverStuck)
  /\ [][Cardinality(Raising) = 1 => (StepsLeft' < StepsLeft \/ ticks' > ticks)]_vars
  /\ [](Returned /\ Cardinality(Raising) = 1
          => IsolatedFailure(CHOOSE k \in Raising : TRUE))

\* a returned Colorado batch of two records, the first one raising, the second
\* one kept
C1_Witness ==
  /\ Returned /\ jur = "Colorado" /\ Len(rows) = 2
  /\ Raising = {1} /\ origins = <<2>>
  /\ log = <<[kind |-> "error", index |-> 1]>> /\ error_count = 1

---------------------------------------------------------------------------
(* Structural completeness of the documents.                               *)

SchemaKeys ==
  {"business_name", "license_number", "dba", "operator_name", "stateName", "jurisdiction",
   "city", "business_address", "location", "contact_information", "owner", "license_type",
   "entity_type", "license_status", "issue_date", "expiration_date", "regulatory_body",
   "license_conditions", "smoke_shop", "canojaVerified", "gps_validation", "claimed",
   "claimedBy", "claimedAt", "adminVerificationRequired", "featured",
   "state_license_document", "utility_bill", "filing_documents_url"}

ContactKeys == {"phone", "email", "website"}
OwnerKeys == {"name", "email", "role", "phone", "govt_issued_id"}

\* the document has every key of the schema, nested keys included
Complete(document) ==
  /\ SchemaKeys \subseteq DOMAIN document
  /\ "coordinates" \in DOMAIN document.location
  /\ ContactKeys \subseteq DOMAIN document.contact_information
  /\ OwnerKeys \subseteq DOMAIN document.owner

\* a raw record that supplies nothing: no column, or only empty cells
AllAbsent(j, rec) ==
  CASE j \in TableJurisdictions -> Len(rec) >= MinCells /\ \A i \in 1..Len(rec) : rec[i] = Str(<<>>)
    [] j = "Ontario" -> rec = [attributes |-> EmptyRow, null |-> FALSE]
    [] OTHER -> rec = EmptyRow

\* None, the empty string or the empty list
IsSentinel(value) == value \in {None, Str(<<>>), <<>>}

\* the fields that only the source can supply (business_address and
\* owner.role are left out: British Columbia's address always ends in 'BC',
\* Jamaica's owner role is always 'Owner')
SuppliedKeys ==
  {"business_name", "license_number", "dba", "operator_name", "city", "issue_date",
   "expiration_date", "claimedBy", "claimedAt", "state_license_document", "utility_bill",
   "filing_documents_url"}

AbsentAsSentinels(document) ==
  /\ \A key \in SuppliedKeys : IsSentinel(document[key])
  /\ IsSentinel(document.location.coordinates)
  /\ \A key \in ContactKeys : IsSentinel(document.contact_information[key])
  /\ \A key \in OwnerKeys \ {"role"} : IsSentinel(document.owner[key])

---------------------------------------------------------------------------
(* The completeness gates.                                                  *)

\* None and '' are the absent values of a string field
NonAbsent(value) == value.kind = "str" /\ value.s # <<>>

\* the records the loop has already passed
Done == 1..(index - 1)

\* C3: in the Colorado and Michigan drivers, at every moment every document
\* of the batch has a non-absent business_name and a non-absent
\* license_number, and no record the loop has passed whose document lacks
\* either one has been appended.
C3_NameAndNumberGate ==
  jur \in {"Colorado", "Michigan"} =>
    /\ \A i \in 1..Len(documents) :
         /\ NonAbsent(documents[i].business_name)
         /\ NonAbsent(documents[i].license_number)
    /\ \A k \in Done :
         ~TooShort(jur, rows[k]) /\ ~TransformRaises(jur, rows[k])
           => LET document == Transform(jur, rows[k], now)
              IN ~(NonAbsent(document.business_name) /\ NonAbsent(document.license_number))
                   => k \notin {origins[i] : i \in 1..Len(origins)}

\* a returned Michigan batch: the first record, without a licence number and
\* with the name 'nan', was skipped, the second one was kept
C3_Witness ==
  /\ Returned /\ jur = "Michigan" /\ Len(rows) = 2 /\ origins = <<2>>
  /\ ~TransformRaises(jur, rows[1])
  /\ ~NonAbsent(Transform(jur, rows[1], now).business_name)
  /\ log = <<[kind |-> "skip", index |-> 1]>>
  /\ processed_count = 1

\* C4: in every jurisdiction's driver, no document with an absent or empty
\* business_name is ever appended to the batch.
C4_NoNamelessDocument ==
  \A i \in 1..Len(documents) : NonAbsent(documents[i].business_name)

---------------------------------------------------------------------------
(* A source that cannot be obtained.                                        *)

\* C5: in every driver, when the source cannot be obtained (the file does not
\* load, the page is not fetched, the page has no table), the driver's only
\* step is to return: the batch stays empty, no transform is invoked, nothing
\* is logged and no record is counted.
C5_SourceFailureGivesEmptyBatch ==
  /\ [](load # "ok" =>
          /\ pc \in {"start", "done"}
          /\ documents = <<>> /\ transform_calls = 0 /\ log = <<>>
          /\ processed_count = 0 /\ error_count = 0)
  /\ [][load # "ok" => pc = "start" /\ pc' = "done"]_vars

\* the Federal driver has returned the empty batch from a page without a
\* table, although the page had rows
C5_Witness ==
  /\ jur = "Federal" /\ load = "no_table" /\ pc = "done" /\ Len(rows) = 2
  /\ documents = <<>> /\ transform_calls = 0

---------------------------------------------------------------------------
(* Determinism of the transform.                                            *)

\* documents i and j of the batch come from equal raw records
SameRecord(i, j) == rows[origins[i]] = rows[origins[j]]

WithoutStatus(document) == [document EXCEPT !.license_status = None]

---------------------------------------------------------------------------
(* Jamaica: scrape_all_pages.  Every page of the site that can be fetched  *)
(* and has a table shows the table rows `rows`; whether a page can be      *)
(* fetched, has a table and has a next-page link is decided anew for each  *)
(* page.                                                                   *)

\* the safety cap on the number of pages
MaxPages == 50

\* the most table rows of a page
MaxPageRows == 1

\* scrape_table_data(soup) for a page whose table holds the rows rs
RECURSIVE scrape_table_data_jamaica(_)
scrape_table_data_jamaica(rs) ==
  IF rs = <<>> THEN <<>>
  ELSE LET cells == Head(rs)
           rest == scrape_table_data_jamaica(Tail(rs))
       IN IF Len(cells) >= MinCells /\ ~raises_jamaica(cells)
            THEN <<document_jamaica(cells)>> \o rest
          ELSE rest

PagesInit ==
  /\ jur = "Jamaica" /\ load = "ok"
  /\ rows \in UNION {[1..n -> RowsJamaica] : n \in 0..MaxPageRows}
  /\ now = Today /\ ticks = 0 /\ pc = "done" /\ index = 1
  /\ documents = <<>> /\ origins = <<>> /\ stamps = <<>> /\ log = <<>>
  /\ processed_count = 0 /\ error_count = 0 /\ transform_calls = 0
  /\ page_num = 1 /\ all_licenses = <<>> /\ fetched = <<>> /\ page_pc = "fetch"

InitPages == PagesInit /\ PureIdle

Fetching == page_pc = "fetch"

\* a driver that gives up what it collected when a fetch fails
FetchFailsEmptyHanded ==
  /\ Fetching
  /\ fetched' = Append(fetched, [page |-> page_num, outcome |-> "failed"])
  /\ page_pc' = "done"
  /\ all_licenses' = <<>>
  /\ UNCHANGED page_num
  /\ UNCHANGED <<driverVars, pureVars>>

\* fetch_page returns None: the loop breaks
FetchFails ==
  /\ Fetching
  /\ fetched' = Append(fetched, [page |-> page_num, outcome |-> "failed"])
  /\ page_pc' = "done"
  /\ UNCHANGED <<page_num, all_licenses>>
  /\ UNCHANGED <<driverVars, pureVars>>

\* the page has no table, or no row of its table gives a document: the loop
\* breaks
PageEmpty ==
  /\ Fetching
  /\ \E table \in BOOLEAN : table => scrape_table_data_jamaica(rows) = <<>>
  /\ fetched' = Append(fetched, [page |-> page_num, outcome |-> "empty"])
  /\ page_pc' = "done"
  /\ UNCHANGED <<page_num, all_licenses>>
  /\ UNCHANGED <<driverVars, pureVars>>

\* the page gives documents and has no next-page link: the loop breaks
LastPage ==
  /\ Fetching /\ scrape_table_data_jamaica(rows) # <<>>
  /\ all_licenses' = all_licenses \o scrape_table_data_jamaica(rows)
  /\ fetched' = Append(fetched, [page |-> page_num, outcome |-> "last"])
  /\ page_pc' = "done"
  /\ UNCHANGED page_num
  /\ UNCHANGED <<driverVars, pureVars>>

\* a driver without the safety cap
NextPageUncapped ==
  /\ Fetching /\ scrape_table_data_jamaica(rows) # <<>>
  /\ all_licenses' = all_licenses \o scrape_table_data_jamaica(rows)
  /\ fetched' = Append(fetched, [page |-> page_num, outcome |-> "next"])
  /\ page_num' = page_num + 1
  /\ UNCHANGED page_pc
  /\ UNCHANGED <<driverVars, pureVars>>

\* the page gives documents and has a next-page link: the loop goes on with
\* the next page, unless the page number now exceeds the cap
NextPage ==
  /\ Fetching /\ scrape_table_data_jamaica(rows) # <<>>
  /\ all_licenses' = all_licenses \o scrape_table_data_jamaica(rows)
  /\ fetched' = Append(fetched, [page |-> page_num, outcome |-> "next"])
  /\ page_num' = page_num + 1
  /\ page_pc' = IF page_num + 1 > MaxPages THEN "done" ELSE "fetch"
  /\ UNCHANGED <<driverVars, pureVars>>

NextPages == FetchFails \/ PageEmpty \/ LastPage \/ NextPage

SpecPages == InitPages /\ [][NextPages]_vars

\* scrape_all_pages is sequential code: while it has a page to fetch, it
\* fetches it
FairSpecPages == SpecPages /\ WF_vars(NextPages)


\* what came of the last page requested
LastOutcome == fetched[Len(fetched)].outcome

\* C7: scrape_all_pages always terminates, having requested at most 50 pages,
\* pages 1, 2, ... in this order: it goes on to the next page only after a
\* page that gave documents and had a next-page link, and it stops exactly
\* at the first failed fetch, the first page without a document, the first
\* page without a next-page link, or once page 50 has been scraped.
C7_PagesTerminateWithinCap ==
  /\ <>(page_pc = "done")
  /\ [](/\ Len(fetched) <= 50
        /\ \A i \in 1..Len(fetched) :
             /\ fetched[i].page = i
             /\ i < Len(fetched) => fetched[i].outcome = "next"
        /\ page_pc = "fetch" => page_num = Len(fetched) + 1 /\ page_num <= 50
        /\ page_pc = "done" =>
             /\ fetched # <<>>
             /\ LastOutcome \in {"failed", "empty", "last"} \/ Len(fetched) = 50)

\* the run that stopped at the cap: fifty pages scraped, each with a
\* next-page link, and the documents of all fifty pages returned
C7_Witness ==
  /\ page_pc = "done" /\ Len(fetched) = 50 /\ LastOutcome = "next" /\ page_num = 51
  /\ Len(rows) = 1 /\ Len(all_licenses) = 50

---------------------------------------------------------------------------
(* The phone formatters, applied to one input.                              *)

\* the longest string of digits tried
MaxPhoneLen == 12
\* the longest string of digits and separators tried
MaxDirtyLen == 8

DigitStrings == UNION {[1..n -> {"1", "5"}] : n \in 0..MaxPhoneLen}
DirtyStrings == UNION {[1..n -> {"4", "-"}] : n \in 0..MaxDirtyLen}

PhoneExamples ==
  {<<"4", "0", "3", "-", "5", "5", "5", "-", "1", "2", "3", "4">>, <<"1", "4", "0", "3", "5", "5", "5", "1", "2", "3", "4">>, <<"a", "b", "c">>, <<"(", "4", "0", "3", ")", " ", "5", "5", "5", " ", "1", "2", "3", "4">>, <<"1", "-", "8", "4", "4", "-", "5", "5", "5", "-", "0", "1", "0", "0">>,
   <<"+", "1", " ", "4", "0", "3", " ", "5", "5", "5", " ", "1", "2", "3", "4", " ", "x", "9">>, <<"n", "/", "a">>, <<"0">>}

PhoneInputs ==
  {Str(s) : s \in DigitStrings \cup DirtyStrings \cup PhoneExamples}
    \cup {None, NaN, Num(<<"0">>), Num(<<"4", "0", "3", "5", "5", "5", "1", "2", "3", "4">>), Num(<<"4", "0", "3", "5", "5", "5", "1", "2", "3", "4", ".", "0">>), Num(<<"5", "5", "5", "1", "2", "3", "4">>)}

InitPhone ==
  /\ DriverIdle /\ PagesIdle
  /\ call = NoCall /\ args \in {<<phone>> : phone \in PhoneInputs} /\ ret = None

\* the formatter of each extractor that formats phones
PhoneFormatters == {"Alberta", "British Columbia", "Colorado", "Federal"}

CallPhoneAlberta ==
  /\ call = NoCall
  /\ call' = [fn |-> "parse_phone", of |-> "Alberta"]
  /\ ret' = parse_phone_number_alberta(args[1])
  /\ UNCHANGED <<args, driverVars, pageVars>>

CallPhoneBC ==
  /\ call = NoCall
  /\ call' = [fn |-> "parse_phone", of |-> "British Columbia"]
  /\ ret' = parse_phone_number_bc(args[1])
  /\ UNCHANGED <<args, driverVars, pageVars>>

CallPhoneColorado ==
  /\ call = NoCall
  /\ call' = [fn |-> "parse_phone", of |-> "Colorado"]
  /\ ret' = parse_phone_number_colorado(args[1])
  /\ UNCHANGED <<args, driverVars, pageVars>>

CallPhoneFederal ==
  /\ call = NoCall
  /\ call' = [fn |-> "parse_phone", of |-> "Federal"]
  /\ ret' = clean_phone_number_federal(args[1])
  /\ UNCHANGED <<args, driverVars, pageVars>>

NextPhone == CallPhoneAlberta \/ CallPhoneBC \/ CallPhoneColorado \/ CallPhoneFederal

SpecPhone == InitPhone /\ [][NextPhone]_vars

\* a phone formatter has been applied to args[1]
PhoneCalled == call.fn = "parse_phone"

\* the digits of the input, in order
InputDigits == DigitsOnly(PyStr(args[1]))

\* C8: in the Alberta, British Columbia, Colorado and Federal formatters, an
\* input with exactly 10 digits d1..d10 gives "(d1d2d3) d4d5d6-d7d8d9d10" and
\* an input with exactly 11 digits, the first one 1, gives
\* "1-(d2d3d4) d5d6d7-d8d9d10d11"; "403-555-1234" gives "(403) 555-1234" and
\* "14035551234" gives "1-(403) 555-1234".
C8_PhoneFormats ==
  PhoneCalled =>
    LET d == InputDigits
    IN /\ call.of \in PhoneFormatters
       /\ Len(d) = 10 =>
            ret = Str(<<"(", d[1], d[2], d[3], ")", " ", d[4], d[5], d[6], "-",
                        d[7], d[8], d[9], d[10]>>)
       /\ Len(d) = 11 /\ d[1] = "1" =>
            ret = Str(<<"1", "-", "(", d[2], d[3], d[4], ")", " ", d[5], d[6], d[7], "-",
                        d[8], d[9], d[10], d[11]>>)
       /\ args[1] = Str(<<"4", "0", "3", "-", "5", "5", "5", "-", "1", "2", "3", "4">>) => ret = Str(<<"(", "4", "0", "3", ")", " ", "5", "5", "5", "-", "1", "2", "3", "4">>)
       /\ args[1] = Str(<<"1", "4", "0", "3", "5", "5", "5", "1", "2", "3", "4">>) => ret = Str(<<"1", "-", "(", "4", "0", "3", ")", " ", "5", "5", "5", "-", "1", "2", "3", "4">>)

\* the Federal formatter has formatted eleven digits with their separators
C8_Witness ==
  /\ PhoneCalled /\ call.of = "Federal"
  /\ args = <<Str(<<"1", "-", "8", "4", "4", "-", "5", "5", "5", "-", "0", "1", "0", "0">>)>> /\ ret = Str(<<"1", "-", "(", "8", "4", "4", ")", " ", "5", "5", "5", "-", "0", "1", "0", "0">>)

\* the digits are neither 10 digits nor 11 digits that start with 1
Unformatted == ~(Len(InputDigits) = 10 \/ (Len(InputDigits) = 11 /\ InputDigits[1] = "1"))

\* C9 as stated: in all four formatters, an input whose digits are neither 10
\* digits nor 11 digits starting with 1 gives the digit string when it has at
\* least 7 digits, and absent when it has fewer.
C9_SevenDigitMinimumEverywhere ==
  PhoneCalled /\ Unformatted =>
    IF Len(InputDigits) >= 7 THEN ret = Str(InputDigits) ELSE ret = None

\* the input is None, NaN, '' or 0, or (Federal) 'n/a' or 'none'
MissingPhone == ~Truthy(args[1]) \/ IsNa(args[1]) \/ InputDigits = <<>>

\* C9, amended: an input whose digits are neither 10 digits nor 11 digits
\* starting with 1 gives absent when it is missing (None, NaN, '', 0) or has
\* no digit; otherwise Colorado's formatter gives the digit string when it
\* has at least 7 digits and absent when it has fewer, and the Alberta,
\* British Columbia and Federal formatters give the digit string whatever
\* its length.
C9_MinimumOnlyInColorado ==
  PhoneCalled /\ Unformatted =>
    IF MissingPhone THEN ret = None
    ELSE IF call.of = "Colorado"
      THEN IF Len(InputDigits) >= MinPhoneDigits THEN ret = Str(InputDigits) ELSE ret = None
    ELSE ret = Str(InputDigits)

\* Alberta's formatter has returned a string of two digits
C9_Witness ==
  /\ PhoneCalled /\ call.of = "Alberta"
  /\ args = <<Str(<<"4", "-", "4">>)>> /\ ret = Str(<<"4", "4">>)

---------------------------------------------------------------------------
(* The postal-code extractors, applied to one address and one explicit     *)
(* postal field.                                                           *)

\* the longest generated address
MaxAddressLen == 7

GeneratedAddresses == UNION {[1..n -> {"t", "2", " "}] : n \in 0..MaxAddressLen}

AddressExamples ==
  {<<"1", "2", "3", " ", "M", "a", "i", "n", " ", "S", "t", ",", " ", "C", "a", "l", "g", "a", "r", "y", " ", "T", "2", "P", " ", "1", "J", "9">>, <<"1", "2", "3", " ", "M", "a", "i", "n", " ", "S", "t", ",", " ", "C", "a", "l", "g", "a", "r", "y", " ", "T", "2", "P", "1", "J", "9">>,
   <<"1", "2", " ", "e", "l", "m", " ", "r", "d", ",", " ", "r", "e", "d", " ", "d", "e", "e", "r", " ", "t", "4", "n", " ", "5", "e", "3", " ", "c", "a", "n", "a", "d", "a">>, <<"1", "2", " ", "E", "l", "m", " ", "R", "d", ",", " ", "R", "e", "d", " ", "D", "e", "e", "r">>, <<"U", "n", "i", "t", " ", "4", "A", " ", "7", "B", " ", "S", "t", "r", "e", "e", "t">>}

PostalAddresses ==
  {Str(s) : s \in GeneratedAddresses \cup AddressExamples} \cup {None}

PostalFields == {None, Str(<<>>), Str(<<" ", " ">>), Str(<<"T", "5", "K", " ", "2", "N", "3">>), Str(<<" ", "t", "5", "k", "2", "n", "3", " ">>)}

InitPostal ==
  /\ DriverIdle /\ PagesIdle
  /\ call = NoCall /\ ret = None
  /\ args \in {<<address, field>> : address \in PostalAddresses, field \in PostalFields}

\* Alberta: extract_postal_code(address, site_postal)
CallPostalAlberta ==
  /\ call = NoCall
  /\ call' = [fn |-> "extract_postal_code", of |-> "Alberta"]
  /\ ret' = extract_postal_code_alberta(args[1], args[2])
  /\ UNCHANGED <<args, driverVars, pageVars>>

\* British Columbia: extract_postal_code(postal_value), which is given the
\* explicit field only
CallPostalBC ==
  /\ call = NoCall
  /\ call' = [fn |-> "extract_postal_code", of |-> "British Columbia"]
  /\ ret' = extract_postal_code_bc(args[2])
  /\ UNCHANGED <<args, driverVars, pageVars>>

NextPostal == CallPostalAlberta \/ CallPostalBC

SpecPostal == InitPostal /\ [][NextPostal]_vars

\* the explicit field holds something other than whitespace
ExplicitGiven(field) == field # None /\ Strip(field.s) # <<>>

HasPostalPattern(address) ==
  /\ address # None
  /\ \E i \in 1..Len(address.s) : PostalMatchAt(address.s, i) > 0

\* the first postal code of the address, uppercased, its halves separated by
\* one space
CanonicalPostal(address) ==
  LET s == address.s
      i == CHOOSE k \in 1..Len(s) :
             PostalMatchAt(s, k) > 0 /\ \A j \in 1..(k - 1) : PostalMatchAt(s, j) = 0
      n == PostalMatchAt(s, i)
  IN Upper(SubSeq(s, i, i + 2)) \o <<" ">> \o Upper(SubSeq(s, i + n - 3, i + n - 1))

\* C10: extract_postal_code(address, explicit_field) returns the explicit
\* field (trimmed) when it is given; otherwise, when the address holds a
\* Canadian postal code, with or without the space and in any case, it
\* returns that code uppercased with exactly one space between its halves;
\* otherwise it returns absent.  ("123 Main St, Calgary T2P 1J9", None) gives
\* "T2P 1J9".
C10_PostalCodeCanonical ==
  call = [fn |-> "extract_postal_code", of |-> "Alberta"] =>
    /\ IF ExplicitGiven(args[2]) THEN ret = Str(Strip(PyStr(args[2])))
       ELSE IF HasPostalPattern(args[1]) THEN ret = Str(CanonicalPostal(args[1]))
       ELSE ret = None
    /\ args = <<Str(<<"1", "2", "3", " ", "M", "a", "i", "n", " ", "S", "t", ",", " ", "C", "a", "l", "g", "a", "r", "y", " ", "T", "2", "P", " ", "1", "J", "9">>), None>> => ret = Str(<<"T", "2", "P", " ", "1", "J", "9">>)

---------------------------------------------------------------------------
(* The name classifiers (determine_license_type and is_smoke_shop), each   *)
(* applied to one text.                                                    *)

\* the words the generated texts are made of
NameWords ==
  {<<"G", "r", "e", "e", "n">>, <<"G", "r", "o", "w">>, <<"F", "a", "r", "m">>, <<"C", "u", "l", "t", "i", "v", "a", "t", "i", "o", "n">>, <<"G", "R", "O", "W", "E", "R">>, <<"S", "t", "o", "r", "e">>,
   <<"R", "e", "t", "a", "i", "l", "e", "r">>, <<"D", "i", "s", "p", "e", "n", "s", "a", "r", "y">>, <<"P", "r", "o", "c", "e", "s", "s", "i", "n", "g">>, <<"T", "r", "a", "n", "s", "p", "o", "r", "t">>, <<"L", "a", "b">>,
   <<"E", "n", "t", "i", "t", "y">>, <<"R", "e", "t", "a", "i", "l", " ", "T", "h", "e", "r", "a", "p", "e", "u", "t", "i", "c">>, <<"C", "a", "n", "n", "a", "b", "i", "s">>, <<"S", "m", "o", "k", "e">>, <<"V", "a", "p", "e">>}

\* the largest number of words in a generated text
MaxWords == 2

RECURSIVE Phrases(_)
Phrases(n) ==
  IF n = 1 THEN NameWords
  ELSE LET shorter == Phrases(n - 1)
       IN shorter \cup {p \o <<" ">> \o w : p \in shorter, w \in NameWords}

NameTexts == {None, Str(<<>>)} \cup {Str(p) : p \in Phrases(MaxWords)}

\* the second argument of Colorado's classifiers
DbaTexts == {None, Str(<<"R", "e", "t", "a", "i", "l", " ", "S", "t", "o", "r", "e">>)}

\* the ordered keyword groups of each determine_license_type, as written in
\* its if/elif chain
license_type_keywords(j) ==
  CASE j = "Alberta" ->
         <<[category |-> <<"c", "u", "l", "t", "i", "v", "a", "t", "i", "o", "n">>, words |-> <<<<"c", "u", "l", "t", "i", "v", "a", "t", "i", "o", "n">>, <<"g", "r", "o", "w">>, <<"f", "a", "r", "m">>>>],
           [category |-> <<"r", "e", "t", "a", "i", "l">>, words |-> <<<<"d", "i", "s", "p", "e", "n", "s", "a", "r", "y">>, <<"r", "e", "t", "a", "i", "l">>, <<"s", "t", "o", "r", "e">>>>],
           [category |-> <<"p", "r", "o", "c", "e", "s", "s", "i", "n", "g">>, words |-> <<<<"p", "r", "o", "c", "e", "s", "s", "i", "n", "g">>, <<"e", "x", "t", "r", "a", "c", "t", "i", "o", "n">>, <<"m", "a", "n", "u", "f", "a", "c", "t", "u", "r", "i", "n", "g">>>>],
           [category |-> <<"d", "i", "s", "t", "r", "i", "b", "u", "t", "i", "o", "n">>, words |-> <<<<"d", "i", "s", "t", "r", "i", "b", "u", "t", "i", "o", "n">>, <<"t", "r", "a", "n", "s", "p", "o", "r", "t">>, <<"d", "e", "l", "i", "v", "e", "r", "y">>>>],
           [category |-> <<"t", "e", "s", "t", "i", "n", "g">>, words |-> <<<<"t", "e", "s", "t", "i", "n", "g">>, <<"l", "a", "b">>, <<"l", "a", "b", "o", "r", "a", "t", "o", "r", "y">>>>]>>
    [] j = "British Columbia" ->
         <<[category |-> <<"c", "u", "l", "t", "i", "v", "a", "t", "i", "o", "n">>, words |-> <<<<"c", "u", "l", "t", "i", "v", "a", "t", "i", "o", "n">>, <<"g", "r", "o", "w">>, <<"f", "a", "r", "m">>, <<"g", "r", "o", "w", "e", "r">>>>],
           [category |-> <<"p", "r", "o", "c", "e", "s", "s", "i", "n", "g">>, words |-> <<<<"p", "r", "o", "c", "e", "s", "s", "i", "n", "g">>, <<"e", "x", "t", "r", "a", "c", "t", "i", "o", "n">>, <<"m", "a", "n", "u", "f", "a", "c", "t", "u", "r", "i", "n", "g">>, <<"p", "r", "o", "c", "e", "s", "s", "o", "r">>>>],
           [category |-> <<"d", "i", "s", "t", "r", "i", "b", "u", "t", "i", "o", "n">>, words |-> <<<<"d", "i", "s", "t", "r", "i", "b", "u", "t", "i", "o", "n">>, <<"t", "r", "a", "n", "s", "p", "o", "r", "t">>, <<"d", "e", "l", "i", "v", "e", "r", "y">>, <<"d", "i", "s", "t", "r", "i", "b", "u", "t", "o", "r">>>>],
           [category |-> <<"t", "e", "s", "t", "i", "n", "g">>, words |-> <<<<"t", "e", "s", "t", "i", "n", "g">>, <<"l", "a", "b">>, <<"l", "a", "b", "o", "r", "a", "t", "o", "r", "y">>>>]>>
    [] j = "Colorado" ->
         <<[category |-> <<"c", "u", "l", "t", "i", "v", "a", "t", "i", "o", "n">>, words |-> <<<<"c", "u", "l", "t", "i", "v", "a", "t", "i", "o", "n">>, <<"c", "u", "l", "t", "i", "v", "a", "t", "i", "o">>>>],
           [category |-> <<"r", "e", "t", "a", "i", "l">>, words |-> <<<<"r", "e", "t", "a", "i", "l">>, <<"d", "i", "s", "p", "e", "n", "s", "a", "r", "y">>, <<"s", "t", "o", "r", "e">>>>],
           [category |-> <<"p", "r", "o", "c", "e", "s", "s", "i", "n", "g">>, words |-> <<<<"p", "r", "o", "c", "e", "s", "s", "i", "n", "g">>, <<"e", "x", "t", "r", "a", "c", "t", "i", "o", "n">>, <<"m", "a", "n", "u", "f", "a", "c", "t", "u", "r", "i", "n", "g">>, <<"i", "n", "f", "u", "s", "i", "o", "n">>>>],
           [category |-> <<"d", "i", "s", "t", "r", "i", "b", "u", "t", "i", "o", "n">>, words |-> <<<<"d", "i", "s", "t", "r", "i", "b", "u", "t", "i", "o", "n">>, <<"t", "r", "a", "n", "s", "p", "o", "r", "t">>, <<"d", "e", "l", "i", "v", "e", "r", "y">>>>],
           [category |-> <<"t", "e", "s", "t", "i", "n", "g">>, words |-> <<<<"t", "e", "s", "t", "i", "n", "g">>, <<"l", "a", "b">>, <<"l", "a", "b", "o", "r", "a", "t", "o", "r", "y">>>>],
           [category |-> <<"m", "e", "d", "i", "c", "a", "l">>, words |-> <<<<"m", "e", "d", "i", "c", "a", "l", " ", "m", "a", "r", "i", "j", "u", "a", "n", "a">>>>],
           [category |-> <<"o", "p", "t", "i", "o", "n", "a", "l", "_", "p", "r", "e", "m", "i", "s", "e", "s">>, words |-> <<<<"o", "p", "t", "i", "o", "n", "a", "l", " ", "p", "r", "e", "m", "i", "s", "e", "s">>>>]>>
    [] j = "Michigan" ->
         <<[category |-> <<"r", "e", "t", "a", "i", "l">>, words |-> <<<<"r", "e", "t", "a", "i", "l", "e", "r">>, <<"r", "e", "t", "a", "i", "l">>>>],
           [category |-> <<"p", "r", "o", "c", "e", "s", "s", "i", "n", "g">>, words |-> <<<<"p", "r", "o", "c", "e", "s", "s", "o", "r">>, <<"p", "r", "o", "c", "e", "s", "s", "i", "n", "g">>>>],
           [category |-> <<"c", "u", "l", "t", "i", "v", "a", "t", "i", "o", "n">>, words |-> <<<<"g", "r", "o", "w", "e", "r">>, <<"c", "u", "l", "t", "i", "v", "a", "t", "i", "o", "n">>>>],
           [category |-> <<"d", "i", "s", "t", "r", "i", "b", "u", "t", "i", "o", "n">>, words |-> <<<<"t", "r", "a", "n", "s", "p", "o", "r", "t", "e", "r">>, <<"t", "r", "a", "n", "s", "p", "o", "r", "t">>>>],
           [category |-> <<"t", "e", "s", "t", "i", "n", "g">>, words |-> <<<<"t", "e", "s", "t", "i", "n", "g">>, <<"l", "a", "b">>>>],
           [category |-> <<"e", "n", "t", "i", "t", "y">>, words |-> <<<<"e", "n", "t", "i", "t", "y">>>>],
           [category |-> <<"t", "r", "a", "n", "s", "p", "o", "r", "t">>, words |-> <<<<"s", "e", "c", "u", "r", "e", " ", "t", "r", "a", "n", "s", "p", "o", "r", "t">>>>]>>
    [] j = "Ontario" ->
         <<[category |-> <<"c", "u", "l", "t", "i", "v", "a", "t", "i", "o", "n">>, words |-> <<<<"c", "u", "l", "t", "i", "v", "a", "t", "i", "o", "n">>, <<"c", "u", "l", "t", "i", "v", "a", "t", "o", "r">>, <<"g", "r", "o", "w">>, <<"f", "a", "r", "m">>>>],
           [category |-> <<"p", "r", "o", "c", "e", "s", "s", "i", "n", "g">>, words |-> <<<<"p", "r", "o", "c", "e", "s", "s", "i", "n", "g">>, <<"p", "r", "o", "c", "e", "s", "s", "o", "r">>, <<"e", "x", "t", "r", "a", "c", "t", "i", "o", "n">>, <<"m", "a", "n", "u", "f", "a", "c", "t", "u", "r", "i", "n", "g">>>>],
           [category |-> <<"d", "i", "s", "t", "r", "i", "b", "u", "t", "i", "o", "n">>, words |-> <<<<"d", "i", "s", "t", "r", "i", "b", "u", "t", "i", "o", "n">>, <<"d", "i", "s", "t", "r", "i", "b", "u", "t", "o", "r">>, <<"t", "r", "a", "n", "s", "p", "o", "r", "t">>, <<"d", "e", "l", "i", "v", "e", "r", "y">>>>],
           [category |-> <<"t", "e", "s", "t", "i", "n", "g">>, words |-> <<<<"t", "e", "s", "t", "i", "n", "g">>, <<"l", "a", "b">>, <<"l", "a", "b", "o", "r", "a", "t", "o", "r", "y">>>>]>>
    [] j = "Saskatchewan" ->
         <<[category |-> <<"r", "e", "t", "a", "i", "l">>, words |-> <<<<"d", "i", "s", "p", "e", "n", "s", "a", "r", "y">>, <<"c", "a", "n", "n", "a", "b", "i", "s">>, <<"w", "e", "e", "d">>, <<"s", "h", "o", "p">>, <<"s", "t", "o", "r", "e">>>>],
           [category |-> <<"r", "e", "t", "a", "i", "l">>, words |-> <<<<"s", "m", "o", "k", "e">>>>]>>

\* the jurisdictions whose classifier is a chain of keyword groups
KeywordJurisdictions == {"Alberta", "British Columbia", "Colorado", "Michigan", "Ontario", "Saskatchewan"}

InitNames ==
  /\ DriverIdle /\ PagesIdle
  /\ call = NoCall /\ ret = None
  /\ args \in {<<text, dba>> : text \in NameTexts, dba \in DbaTexts}

\* the classifier of each jurisdiction; Colorado's takes the DBA name as well
determine_license_type(j, text, dba) ==
  CASE j = "Alberta" -> determine_license_type_alberta(text)
    [] j = "British Columbia" -> determine_license_type_bc(text)
    [] j = "Colorado" -> determine_license_type_colorado(text, dba)
    [] j = "Jamaica" -> determine_license_type_jamaica(text)
    [] j = "Michigan" -> determine_license_type_michigan(text)
    [] j = "Ontario" -> determine_license_type_ontario(text)
    [] j = "Saskatchewan" -> determine_license_type_from_name(text)

is_smoke_shop(j, name, dba) ==
  CASE j = "Alberta" -> is_smoke_shop_alberta(name)
    [] j = "British Columbia" -> is_smoke_shop_bc(name)
    [] j = "Colorado" -> is_smoke_shop_colorado(name, dba)
    [] j = "Michigan" -> is_smoke_shop_michigan(name)
    [] j = "Ontario" -> is_smoke_shop_ontario(name)
    [] j = "Saskatchewan" -> is_smoke_shop_sask(name)

ClassifyName(j) ==
  /\ call = NoCall
  /\ call' = [fn |-> "determine_license_type", of |-> j]
  /\ ret' = determine_license_type(j, args[1], args[2])
  /\ UNCHANGED <<args, driverVars, pageVars>>

FlagName(j) ==
  /\ call = NoCall
  /\ call' = [fn |-> "is_smoke_shop", of |-> j]
  /\ ret' = is_smoke_shop(j, args[1], args[2])
  /\ UNCHANGED <<args, driverVars, pageVars>>

NextNames ==
  \/ \E j \in KeywordJurisdictions \cup {"Jamaica"} : ClassifyName(j)
  \/ \E j \in KeywordJurisdictions : FlagName(j)

SpecNames == InitNames /\ [][NextNames]_vars

\* the lowercased text the classifier of j searches
ClassifiedText(j) ==
  LET part(v) == IF Truthy(v) THEN PyStr(v) ELSE <<>>
  IN IF j = "Colorado" THEN Lower(part(args[1]) \o <<" ">> \o part(args[2]))
     ELSE Lower(part(args[1]))

\* the keyword groups of j that the text matches, by position in the chain
MatchingGroups(j) ==
  {k \in DOMAIN license_type_keywords(j) :
     AnyIn(license_type_keywords(j)[k].words, ClassifiedText(j))}

MatchesCategory(j, category) ==
  \E k \in MatchingGroups(j) : license_type_keywords(j)[k].category = category

FirstMatching(j) ==
  LET k == CHOOSE m \in MatchingGroups(j) : \A n \in MatchingGroups(j) : m <= n
  IN Str(license_type_keywords(j)[k].category)

TypeCalled(j) == call = [fn |-> "determine_license_type", of |-> j]

\* Jamaica's first test: 'retail' and 'therapeutic' in the license type
RetailTherapeutic ==
  /\ Contains(<<"r", "e", "t", "a", "i", "l">>, ClassifiedText("Jamaica"))
  /\ Contains(<<"t", "h", "e", "r", "a", "p", "e", "u", "t", "i", "c">>, ClassifiedText("Jamaica"))

\* Jamaica's cultivation test
JamaicaCultivation == AnyIn(<<<<"c", "u", "l", "t", "i", "v", "a", "t", "o", "r">>, <<"c", "u", "l", "t", "i", "v", "a", "t", "i", "o", "n">>>>, ClassifiedText("Jamaica"))

\* C11 as claimed: in every classifier the first matching group of the chain
\* decides, and a text matching both a cultivation keyword and a retail
\* keyword of the classifier is 'cultivation'.
C11_CultivationBeforeRetailEverywhere ==
  /\ \A j \in KeywordJurisdictions :
    TypeCalled(j) =>
      /\ MatchingGroups(j) # {} => ret = FirstMatching(j)
      /\ MatchesCategory(j, <<"c", "u", "l", "t", "i", "v", "a", "t", "i", "o", "n">>) /\ MatchesCategory(j, <<"r", "e", "t", "a", "i", "l">>)
           => ret = Str(<<"c", "u", "l", "t", "i", "v", "a", "t", "i", "o", "n">>)
  /\ TypeCalled("Jamaica") /\ RetailTherapeutic /\ JamaicaCultivation
       => ret = Str(<<"c", "u", "l", "t", "i", "v", "a", "t", "i", "o", "n">>)

\* C11, amended: in every classifier the first matching group of that
\* classifier's own chain decides; a text matching both a cultivation and a
\* retail keyword is 'cultivation' in Alberta and Colorado, whose chains
\* begin with cultivation, and 'retail' in Michigan, whose chain begins with
\* retail, and in Jamaica when the text also holds 'therapeutic'.
C11_FirstMatchInOwnOrder ==
  /\ \A j \in KeywordJurisdictions :
    TypeCalled(j) =>
      /\ MatchingGroups(j) # {} => ret = FirstMatching(j)
      /\ MatchesCategory(j, <<"c", "u", "l", "t", "i", "v", "a", "t", "i", "o", "n">>) /\ MatchesCategory(j, <<"r", "e", "t", "a", "i", "l">>)
           => ret = Str(IF j = "Michigan" THEN <<"r", "e", "t", "a", "i", "l">> ELSE <<"c", "u", "l", "t", "i", "v", "a", "t", "i", "o", "n">>)
  /\ TypeCalled("Jamaica") /\ RetailTherapeutic /\ JamaicaCultivation
       => ret = Str(<<"r", "e", "t", "a", "i", "l">>)

\* Alberta has classified a text that holds a cultivation and a retail keyword
C11_Witness ==
  /\ TypeCalled("Alberta") /\ args[1] = Str(<<"F", "a", "r", "m", " ", "S", "t", "o", "r", "e">>)
  /\ ret = Str(<<"c", "u", "l", "t", "i", "v", "a", "t", "i", "o", "n">>)

---------------------------------------------------------------------------
(* The vocabularies of the documents of a batch.                           *)

LicenseCategories ==
  {<<"r", "e", "t", "a", "i", "l">>, <<"c", "u", "l", "t", "i", "v", "a", "t", "i", "o", "n">>, <<"p", "r", "o", "c", "e", "s", "s", "i", "n", "g">>, <<"d", "i", "s", "t", "r", "i", "b", "u", "t", "i", "o", "n">>, <<"t", "e", "s", "t", "i", "n", "g">>,
   <<"d", "i", "s", "t", "r", "i", "b", "u", "t", "i", "o", "n", "/", "t", "r", "a", "n", "s", "p", "o", "r", "t">>, <<"m", "e", "d", "i", "c", "a", "l">>, <<"o", "p", "t", "i", "o", "n", "a", "l", "_", "p", "r", "e", "m", "i", "s", "e", "s">>, <<"e", "n", "t", "i", "t", "y">>,
   <<"o", "t", "h", "e", "r">>}

\* C12: in every document of every extractor, license_type is one of retail,
\* cultivation, processing, distribution, testing, distribution/transport,
\* medical, optional_premises, entity, other, whatever the raw record holds.
C12_LicenseTypeInFixedCategories ==
  \A i \in 1..Len(documents) :
    documents[i].license_type \in {Str(category) : category \in LicenseCategories}

StatusVocabulary ==
  {<<"A", "c", "t", "i", "v", "e">>, <<"I", "n", "a", "c", "t", "i", "v", "e">>, <<"P", "e", "n", "d", "i", "n", "g">>, <<"S", "u", "s", "p", "e", "n", "d", "e", "d">>, <<"E", "x", "p", "i", "r", "e", "d">>, <<"D", "e", "n", "i", "e", "d">>,
   <<"R", "e", "v", "o", "k", "e", "d">>, <<"U", "n", "k", "n", "o", "w", "n">>}

\* C14: in every document of every extractor, license_status is one of
\* Active, Inactive, Pending, Suspended, Expired, Denied, Revoked, Unknown,
\* for every raw status text and for an absent one.
C14_StatusInVocabulary ==
  \A i \in 1..Len(documents) :
    documents[i].license_status \in {Str(status) : status \in StatusVocabulary}

\* the cleaned status text the transform of j maps; Alberta, Colorado and
\* Jamaica read no status column
raw_status(j, rec) ==
  CASE j = "British Columbia" -> clean_string_bc(Get(rec, "Status"))
    [] j = "Federal" ->
         IF cell_text(rec, 2) = <<>> THEN None ELSE Str(cell_text(rec, 2))
    [] j = "Michigan" -> clean_string_michigan(Get(rec, "Status"))
    [] j = "Ontario" -> clean_string_ontario(Get(rec.attributes, "ApplicationStatus"))
    [] j = "Saskatchewan" -> clean_string_sask(Get(rec, "Status"))
    [] OTHER -> None

\* the words the status mapping of j looks for
status_keywords(j) ==
  CASE j = "British Columbia" -> <<<<"o", "p", "e", "n">>>>
    [] j = "Federal" -> <<<<"r", "e", "v", "o", "k", "e", "d">>>>
    [] j = "Michigan" ->
         <<<<"a", "c", "t", "i", "v", "e">>, <<"p", "r", "e", "q", "u", "a", "l", "i", "f", "i", "e", "d">>, <<"i", "n", "a", "c", "t", "i", "v", "e">>, <<"e", "x", "p", "i", "r", "e", "d">>, <<"p", "e", "n", "d", "i", "n", "g">>, <<"s", "u", "s", "p", "e", "n", "d", "e", "d">>>>
    [] j = "Ontario" ->
         <<<<"a", "u", "t", "h", "o", "r", "i", "z", "e", "d", " ", "t", "o", " ", "o", "p", "e", "n">>, <<"p", "e", "n", "d", "i", "n", "g">>, <<"d", "e", "n", "i", "e", "d">>, <<"r", "e", "j", "e", "c", "t", "e", "d">>, <<"s", "u", "s", "p", "e", "n", "d", "e", "d">>>>
    [] OTHER -> <<>>

\* the raw status is absent, or it is empty, or no status keyword occurs in it
NoStatusKeyword(j, rec) ==
  IF ~Truthy(raw_status(j, rec)) THEN TRUE
  ELSE ~AnyIn(status_keywords(j), Lower(raw_status(j, rec).s))

\* C15: in every extractor, when the raw status is absent or matches no
\* status keyword, the license_status of the document is 'Unknown' or
\* 'Active' and nothing else.
C15_DefaultStatusUnknownOrActive ==
  \A i \in 1..Len(documents) :
    NoStatusKeyword(jur, rows[origins[i]]) =>
      documents[i].license_status \in {Str(<<"U", "n", "k", "n", "o", "w", "n">>), Str(<<"A", "c", "t", "i", "v", "e">>)}

\* C13: when the classified text is absent or matches no keyword of any
\* category, the classifier returns 'retail' in British Columbia, Ontario and
\* Saskatchewan and 'other' in Alberta, Colorado and Michigan.
C13_DefaultLicenseType ==
  \A j \in KeywordJurisdictions :
    TypeCalled(j) /\ MatchingGroups(j) = {} =>
      ret = Str(IF j \in {"British Columbia", "Ontario", "Saskatchewan"}
                  THEN <<"r", "e", "t", "a", "i", "l">> ELSE <<"o", "t", "h", "e", "r">>)

\* British Columbia has classified an absent name
C13_Witness ==
  TypeCalled("British Columbia") /\ args[1] = None /\ ret = Str(<<"r", "e", "t", "a", "i", "l">>)

\* C16: in the cannabis-retail extractors (British Columbia, Ontario,
\* Saskatchewan), is_smoke_shop is false for every business name that holds
\* 'cannabis', also when the name holds a smoke-shop keyword.
C16_CannabisNeverSmokeShop ==
  \A j \in {"British Columbia", "Ontario", "Saskatchewan"} :
    /\ call = [fn |-> "is_smoke_shop", of |-> j]
    /\ Truthy(args[1]) /\ Contains(<<"c", "a", "n", "n", "a", "b", "i", "s">>, Lower(PyStr(args[1])))
    => ret = FALSE

---------------------------------------------------------------------------
(* business_address, assembled from the address columns of one record.     *)

\* clean_string of each scraper that has one
clean_string(j, value) ==
  CASE j = "Alberta" -> clean_string_alberta(value)
    [] j = "British Columbia" -> clean_string_bc(value)
    [] j = "Colorado" -> clean_string_colorado(value)
    [] j = "Jamaica" -> clean_string_jamaica(value)
    [] j = "Michigan" -> clean_string_michigan(value)
    [] j = "Ontario" -> clean_string_ontario(value)
    [] j = "Saskatchewan" -> clean_string_sask(value)

AddressJurisdictions == {"Alberta", "British Columbia", "Colorado", "Ontario", "Saskatchewan"}

AbsentValues == {None, NaN, Str(<<>>), Str(<<" ", " ">>)}

\* street, city, province and postal code: each absent in one of four ways or
\* present with surrounding whitespace
AddressInputs ==
  {<<street, city, province, postal>> :
     street \in AbsentValues \cup {Str(<<" ", "5", " ", "E", "l", "m", " ", "S", "t", " ">>)},
     city \in AbsentValues \cup {Str(<<"H", "o", "p", "e", " ">>)},
     province \in AbsentValues \cup {Str(<<"X", "X">>)},
     postal \in AbsentValues \cup {Str(<<" ", "V", "0", "X", " ", "1", "L", "0">>)}}

\* the record of j that holds the four values in its address columns
AddressRecord(j, values) ==
  CASE j = "Alberta" ->
         ("Site Address Line 1" :> values[1]) @@ ("Site City Name" :> values[2])
           @@ ("Site" :> values[3]) @@ ("Site Postal" :> values[4])
    [] j = "British Columbia" ->
         ("Address" :> values[1]) @@ ("City" :> values[2]) @@ ("Postal" :> values[4])
    [] j = "Colorado" ->
         ("Street" :> values[1]) @@ ("City" :> values[2]) @@ ("ZIP Code" :> values[4])
    [] j = "Ontario" ->
         [attributes |-> ("StreetAddress" :> values[1]) @@ ("City" :> values[2])
                           @@ ("Province" :> values[3]) @@ ("PostalCode" :> values[4]),
          null |-> FALSE]
    [] j = "Saskatchewan" ->
         ("Street Address" :> values[1]) @@ ("City" :> values[2])

InitAddress ==
  /\ DriverIdle /\ PagesIdle
  /\ call = NoCall /\ ret = None
  /\ args \in AddressInputs

\* the transform of j builds business_address from the address columns
AssembleAddress(j) ==
  /\ call = NoCall
  /\ call' = [fn |-> "business_address", of |-> j]
  /\ ret' = Transform(j, AddressRecord(j, args), Today).business_address
  /\ UNCHANGED <<args, driverVars, pageVars>>

SpecAddress == InitAddress /\ [][\E j \in AddressJurisdictions : AssembleAddress(j)]_vars

\* the component as a list of parts: empty when it is absent or blank
Part(value) == IF Truthy(value) /\ Strip(PyStr(value)) # <<>> THEN <<Strip(PyStr(value))>> ELSE <<>>

\* the cleaned components of j in the order of assembly, the absent ones left
\* out; British Columbia and Saskatchewan add fixed province components
AddressComponents(j) ==
  LET street == Part(clean_string(j, args[1]))
      city == Part(clean_string(j, args[2]))
      province == Part(clean_string(j, args[3]))
      postal == Part(clean_string(j, args[4]))
  IN CASE j = "British Columbia" ->
            street \o city \o <<<<"B", "C">>>> \o Part(extract_postal_code_bc(args[4]))
       [] j = "Colorado" -> street \o city \o postal
       [] j = "Saskatchewan" ->
            IF street \o city = <<>> THEN <<>>
            ELSE street \o city \o <<<<"S", "a", "s", "k", "a", "t", "c", "h", "e", "w", "a", "n">>, <<"C", "a", "n", "a", "d", "a">>>>
       [] OTHER -> street \o city \o province \o postal

\* every address column of the record of j is absent or blank
NoComponent(j) ==
  LET columns == CASE j \in {"Alberta", "Ontario"} -> {1, 2, 3, 4}
                   [] j \in {"British Columbia", "Colorado"} -> {1, 2, 4}
                   [] j = "Saskatchewan" -> {1, 2}
  IN \A k \in columns : Part(clean_string(j, args[k])) = <<>>

\* C17: in Alberta, British Columbia, Colorado, Ontario and Saskatchewan
\* business_address is exactly the non-absent components in their fixed
\* order joined by ", ", without leading, trailing or doubled separator, for
\* every combination of present and absent components; when every component
\* is absent it is the empty string, not the absent marker.
C17_AddressJoinsPresentComponents ==
  \A j \in AddressJurisdictions :
    call = [fn |-> "business_address", of |-> j] =>
      /\ ret = Str(JoinComma(AddressComponents(j)))
      /\ NoComponent(j) => ret = Str(<<>>)

---------------------------------------------------------------------------
(* clean_string of each scraper, applied to one value.                     *)

CleanInputs ==
  {None, NaN, Num(<<"0">>), Num(<<"4", "2">>), Num(<<"4", ".", "5">>),
   Str(<<>>), Str(<<" ">>), Str(<<" ", " ", "\t">>), Str(<<"n", "o", "n", "e">>), Str(<<"N", "o", "n", "e">>), Str(<<"N", "U", "L", "L">>),
   Str(<<"n", "u", "l", "l">>), Str(<<"n", "/", "a">>), Str(<<"N", "/", "A">>), Str(<<"n", "a", "n">>), Str(<<"N", "a", "N">>), Str(<<".">>),
   Str(<<" ", "x", " ">>), Str(<<"G", "r", "e", "e", "n", " ", "L", "e", "a", "f">>), Str(<<"n", "o", "n", "e", "s", "u", "c", "h">>)}

CleanJurisdictions ==
  {"Alberta", "British Columbia", "Colorado", "Jamaica", "Michigan", "Ontario", "Saskatchewan"}

InitClean ==
  /\ DriverIdle /\ PagesIdle
  /\ call = NoCall /\ ret = None
  /\ args \in {<<value>> : value \in CleanInputs}

CleanString(j) ==
  /\ call = NoCall
  /\ call' = [fn |-> "clean_string", of |-> j]
  /\ ret' = clean_string(j, args[1])
  /\ UNCHANGED <<args, driverVars, pageVars>>

SpecClean == InitClean /\ [][\E j \in CleanJurisdictions : CleanString(j)]_vars

\* a missing value, the empty or a whitespace-only string, or one of the
\* sentinel words in any case
MissingValue(value) ==
  \/ IsNa(value)
  \/ Strip(PyStr(value)) = <<>>
  \/ Lower(PyStr(value)) \in {<<"n", "o", "n", "e">>, <<"n", "u", "l", "l">>, <<"n", "/", "a">>, <<"n", "a", "n">>, <<".">>}

\* C18: every clean_string computes the same function: absent for a missing
\* value, the empty string, a whitespace-only string and (in any case)
\* 'none', 'null', 'n/a', 'nan' and '.'; otherwise the string form of the
\* input without surrounding whitespace.  So no clean_string returns an
\* empty string, and no two of them disagree on an input.
C18_CleanStringSameEverywhere ==
  \A j \in CleanJurisdictions :
    call = [fn |-> "clean_string", of |-> j] =>
      /\ ret = IF MissingValue(args[1]) THEN None ELSE Str(Strip(PyStr(args[1])))
      /\ ret # Str(<<>>)
      /\ \A other \in CleanJurisdictions : ret = clean_string(other, args[1])

---------------------------------------------------------------------------
(* The jurisdiction constants and the workflow placeholders of a batch.    *)

SameIn(field) ==
  \A i, k \in 1..Len(documents) : documents[i][field] = documents[k][field]

PlaceholdersInitial(document) ==
  /\ document.claimed = FALSE /\ document.claimedBy = None /\ document.claimedAt = None
  /\ document.adminVerificationRequired = FALSE /\ document.featured = FALSE
  /\ document.state_license_document = None /\ document.utility_bill = None

\* C20 as claimed: in every document of every extractor the workflow
\* placeholders claimed, claimedBy, claimedAt, adminVerificationRequired,
\* featured, state_license_document, utility_bill and filing_documents_url
\* hold their initial value (False or absent), whatever the raw record holds.
C20_PlaceholdersNeverPopulated ==
  \A i \in 1..Len(documents) :
    PlaceholdersInitial(documents[i]) /\ documents[i].filing_documents_url = None

\* C20, amended: the seven placeholders other than filing_documents_url hold
\* their initial value in every document; filing_documents_url is absent in
\* every extractor except Ontario's, where it is the cleaned URLLink
\* attribute of the record.
C20_PlaceholdersButOntarioUrl ==
  \A i \in 1..Len(documents) :
    /\ PlaceholdersInitial(documents[i])
    /\ documents[i].filing_documents_url =
         IF jur = "Ontario"
           THEN clean_string_ontario(Get(rows[origins[i]].attributes, "URLLink"))
         ELSE None

\* an Ontario document that holds the URL of its record
C20_Witness ==
  /\ Returned /\ jur = "Ontario" /\ Len(documents) = 1
  /\ documents[1].filing_documents_url = Str(<<"h", "t", "t", "p", "s", ":", "/", "/", "a", "g", "c", "o", ".", "e", "x", "a", "m", "p", "l", "e", "/", "1", "7">>)
  /\ PlaceholdersInitial(documents[1])

---------------------------------------------------------------------------
(* The dates and the entity types of the documents of a batch.            *)

\* an ISO-8601 timestamp string, YYYY-MM-DDTHH:MM:SS
IsIsoTimestamp(value) ==
  /\ value.kind = "str" /\ Len(value.s) = 19
  /\ ParseIsoDate(SubSeq(value.s, 1, 10)).ok
  /\ SubSeq(value.s, 11, 19) = <<"T", "0", "0", ":", "0", "0", ":", "0", "0">>

\* C21: in every document of every extractor, issue_date and expiration_date
\* are each absent or an ISO-8601 timestamp string; a date value that is
\* missing or cannot be parsed gives absent, and the document is produced all
\* the same.
C21_DatesIsoOrAbsent ==
  \A i \in 1..Len(documents) :
    /\ documents[i].issue_date = None \/ IsIsoTimestamp(documents[i].issue_date)
    /\ documents[i].expiration_date = None \/ IsIsoTimestamp(documents[i].expiration_date)

---------------------------------------------------------------------------
(* The Alberta transform, field by field.                                  *)

GreenLeafRow ==
  ("Establishment Name" :> Str(<<"G", "r", "e", "e", "n", " ", "L", "e", "a", "f", " ", "D", "i", "s", "p", "e", "n", "s", "a", "r", "y">>))
    @@ ("Authorization Number" :> Str(<<"A", "B", "-", "1", "0", "0", "1">>))
    @@ ("Site City Name" :> Str(<<"C", "a", "l", "g", "a", "r", "y">>))
    @@ ("Telephone Number" :> Str(<<"4", "0", "3", "5", "5", "5", "1", "2", "3", "4">>))
    @@ ("Initial Effective" :> Str(<<"7", "/", "1", "0", "/", "2", "0", "2", "2">>))

---------------------------------------------------------------------------
(* The counts of the gated drivers.                                        *)

SkipsLogged == {i \in 1..Len(log) : log[i].kind = "skip"}

Logged(kind, k) == \E i \in 1..Len(log) : log[i] = [kind |-> kind, index |-> k]

\* C23: when a gated driver (Colorado, Michigan, Ontario) has finished a
\* batch of N records, processed + skipped + errored = N and processed is
\* the length of the returned batch; a record the gate rejects is reported as
\* skipped and not counted as an error, and a record whose transform raised
\* is counted as an error and not reported as skipped.
C23_GatedCountsAddUp ==
  Returned /\ jur \in {"Colorado", "Michigan", "Ontario"} =>
    /\ processed_count + Cardinality(SkipsLogged) + error_count = Len(rows)
    /\ processed_count = Len(documents)
    /\ error_count = Cardinality(Raising)
    /\ \A k \in 1..Len(rows) :
         /\ FailsGateAt(k) => Logged("skip", k) /\ ~Logged("error", k)
         /\ RaisesAt(k) => Logged("error", k) /\ ~Logged("skip", k)

\* a returned Michigan batch of a record the gate rejects and a record whose
\* transform raises
C23_Witness ==
  /\ Returned /\ jur = "Michigan" /\ Len(rows) = 2 /\ documents = <<>>
  /\ log = <<[kind |-> "skip", index |-> 1], [kind |-> "error", index |-> 2]>>
  /\ processed_count = 0 /\ error_count = 1

---------------------------------------------------------------------------
(* entity_type.                                                            *)

\* C24: in every document of every extractor, entity_type is derived from
\* license_type: license_type is an element of entity_type, entity_type is
\* never empty, and no element occurs in it twice.
C24_EntityTypeHoldsLicenseType ==
  \A i \in 1..Len(documents) :
    LET entity_type == documents[i].entity_type
    IN /\ entity_type # <<>>
       /\ \E k \in 1..Len(entity_type) : entity_type[k] = documents[i].license_type
       /\ \A k, m \in 1..Len(entity_type) : entity_type[k] = entity_type[m] => k = m

---------------------------------------------------------------------------
(* The order of the batch.                                                 *)

\* the batch before the step is the head of the batch after it
KeptAsPrefix ==
  /\ Len(documents') >= Len(documents)
  /\ SubSeq(documents', 1, Len(documents)) = documents
  /\ SubSeq(origins', 1, Len(origins)) = origins

\* C25: in every driver the returned batch keeps the order of the input:
\* each raw record contributes at most one document and the documents stand
\* in the order of their records; once a document is appended, no later step
\* (a record that raises or is skipped included) removes, moves or changes it.
C25_BatchKeepsInputOrder ==
  /\ [](/\ Len(origins) = Len(documents)
        /\ \A i, k \in 1..Len(origins) : i < k => origins[i] < origins[k]
        /\ \A i \in 1..Len(origins) : origins[i] < index)
  /\ [][KeptAsPrefix]_vars

\* a returned batch whose first record gave a document and whose second
\* record raised afterwards
C25_Witness ==
  /\ Returned /\ jur = "British Columbia" /\ Len(rows) = 2
  /\ origins = <<1>> /\ log = <<[kind |-> "error", index |-> 2]>>
  /\ documents = <<Transform(jur, rows[1], stamps[1])>>

---------------------------------------------------------------------------
(* The column aliases of the Michigan transform.                           *)

\* the cell holds a value that clean_string keeps
CarriesData(value) ==
  value.kind # "obj" /\ clean_string_michigan(value) \notin {None, Str(<<>>)}

\* the document field that takes the value of the aliased columns
AliasedFields ==
  {<<"Record Number", "RecordNumber", "license_number">>,
   <<"Record Type", "RecordType", "_michigan_record_type">>,
   <<"License Name", "LicenseName", "business_name">>,
   <<"Disciplinary Action", "DisciplinaryAction", "_michigan_disciplinary_action">>}

\* one of the two aliases carries data
SomeAlias(row, first, second) ==
  CarriesData(Get(row, first)) \/ CarriesData(Get(row, second))

\* the cleaned value of the first alias when it carries data, else of the
\* second
AliasValue(row, first, second) ==
  IF CarriesData(Get(row, first)) THEN clean_string_michigan(Get(row, first))
  ELSE clean_string_michigan(Get(row, second))

\* C26: in the Michigan transform the aliases of a field (Record Number /
\* RecordNumber, Record Type / RecordType, License Name / LicenseName,
\* Expiration Date / ExpirationDate, Disciplinary Action /
\* DisciplinaryAction) are tried in order: the value of the first alias is
\* used when it carries data; when the first alias is missing from the row or
\* carries a missing value and the second alias carries data, the value of
\* the second alias is used.
C26_SecondAliasWhenFirstMissing ==
  jur = "Michigan" =>
    \A k \in 1..Len(rows) :
      k < index /\ ~TransformRaises(jur, rows[k]) =>
        LET document == Transform(jur, rows[k], now)
        IN /\ \A alias \in AliasedFields :
                SomeAlias(rows[k], alias[1], alias[2]) =>
                  document[alias[3]] = AliasValue(rows[k], alias[1], alias[2])
           /\ SomeAlias(rows[k], "Expiration Date", "ExpirationDate") =>
                document.expiration_date
                  = parse_date_michigan(AliasValue(rows[k], "Expiration Date",
                                                   "ExpirationDate"))


\* whether the attribute is a numeric value: float(value) returns
Numeric(value) == value.kind # "none" /\ FloatOk(value)

\* C27: every Ontario record already handled whose attributes supply
\* Latitude and Longitude as numeric values (0 included) gives a document
\* whose location.coordinates is exactly [Longitude, Latitude], every other
\* Ontario record gives empty coordinates, gps_validation is true exactly
\* when coordinates is non-empty, and in every other extractor coordinates
\* is empty and gps_validation false.
C27_CoordinatesLongitudeLatitude ==
  \A k \in 1..Len(rows) :
    k < index /\ ~TooShort(jur, rows[k]) /\ ~TransformRaises(jur, rows[k]) =>
      LET document == Transform(jur, rows[k], now)
      IN IF jur = "Ontario"
           THEN LET latitude == Get(rows[k].attributes, "Latitude")
                    longitude == Get(rows[k].attributes, "Longitude")
                IN /\ document.location.coordinates =
                        IF Numeric(longitude) /\ Numeric(latitude)
                          THEN <<Float(longitude), Float(latitude)>>
                          ELSE <<>>
                   /\ document.gps_validation = (document.location.coordinates # <<>>)
           ELSE /\ document.location.coordinates = <<>>
                /\ document.gps_validation = FALSE


\* the status text parse_license_status is called with, and whether the
\* lower-cased text contains the word
StatusText(row) == clean_string_michigan(Get(row, "Status"))

StatusContains(word, row) ==
  StatusText(row).kind = "str" /\ Contains(word, Lower(StatusText(row).s))

\* C28: every Michigan record already handled whose status text contains
\* 'inactive' (in any case) has license_status 'Inactive', and license_status
\* is 'Active' only for a text that contains 'active' and not 'inactive'.
C28_InactiveStatusIsInactive ==
  jur = "Michigan" =>
    \A k \in 1..Len(rows) :
      k < index /\ ~TransformRaises(jur, rows[k]) =>
        LET document == Transform(jur, rows[k], now)
        IN /\ StatusContains(<<"i", "n", "a", "c", "t", "i", "v", "e">>, rows[k]) =>
                document.license_status = Str(<<"I", "n", "a", "c", "t", "i", "v", "e">>)
           /\ document.license_status = Str(<<"A", "c", "t", "i", "v", "e">>) =>
                /\ StatusContains(<<"a", "c", "t", "i", "v", "e">>, rows[k])
                /\ ~StatusContains(<<"i", "n", "a", "c", "t", "i", "v", "e">>, rows[k])

\* C29: every Michigan record already handled whose record type contains
\* 'secure transport' (in any case) has license_type 'transport'.
C29_SecureTransportIsTransport ==
  jur = "Michigan" =>
    \A k \in 1..Len(rows) :
      k < index /\ ~TransformRaises(jur, rows[k]) =>
        LET document == Transform(jur, rows[k], now)
            record_type == document["_michigan_record_type"]
        IN record_type.kind = "str"
             /\ Contains(<<"s", "e", "c", "u", "r", "e", " ", "t", "r", "a", "n", "s", "p", "o", "r", "t">>, Lower(record_type.s)) =>
               document.license_type = Str(<<"t", "r", "a", "n", "s", "p", "o", "r", "t">>)


\* the documents of the first n pages, page after page
Collected(n) ==
  LET page_licenses == scrape_table_data_jamaica(rows)
      size == Len(page_licenses)
  IN [i \in 1..(n * size) |-> page_licenses[((i - 1) % size) + 1]]

\* the fetch of a page after the first has failed
LaterFetchFailed == Len(fetched) > 1 /\ LastOutcome = "failed"

=============================================================================
